---- MODULE Spec2Model ----
(***************************************************************************)
(* Model of the batched GPU sampling engine of light_data_sensor_3d:       *)
(* BatchComputeManager (registry of sensor regions, one processing cycle   *)
(* of four critical sections, Metal buffers) and the LightSensorManager    *)
(* that drives it.                                                         *)
(*                                                                         *)
(* Spec: one mutator thread calling the registry API and one cycle thread  *)
(* running process_sensors.  Every section of code that holds data_mutex   *)
(* is one atomic action; the four steps of process_sensors take the mutex  *)
(* separately, so mutator calls interleave between them.                   *)
(* SpecRegistry: the registry API called from one thread, no cycle.        *)
(* SpecLSM: LightSensorManager driving its BatchComputeManager from the    *)
(* main thread.                                                            *)
(***************************************************************************)
EXTENDS Integers, Sequences, FiniteSets, TLC

(***************************************************************************)
(* Bounds of the model.                                                    *)
(***************************************************************************)
\* sensor ids passed to the registry API are 1..MaxId
MaxId == 3
\* set_max_sensors is called with 0..MaxMaxSensors
MaxMaxSensors == 2
\* sensor ids used while a cycle can be in flight are 1..MaxCycleId
MaxCycleId == 2

\* max_sensors as constructed: the source's 10000 scaled down to the model
DefaultMaxSensors == 1
\* sample_radius as constructed
DefaultSampleRadius == 4
\* set_sample_radius clamps into [MinRadius, MaxRadius]
MinRadius == 1
MaxRadius == 16
\* bit pattern of the float 1.0 (0x3F800000): smaller non-negative patterns
\* are floats below 1.0
FloatOneBits == 1065353216
\* RGBA8Unorm: a texel channel is a byte, read back as byte/255
ByteMax == 255

SensorIds == 1..MaxId
CycleIds == 1..MaxCycleId
\* screen positions handed to add_sensor (pixel coordinates)
Points == {<<0, 0>>, <<1, 0>>}
\* radii handed to add_sensor and set_sample_radius
Radii == {-1, 0, 4, 17}
\* the same while a cycle can be in flight
CycleRadii == {4}

(***************************************************************************)
(* Colors.  A channel is a rational <<n, d>> in lowest terms.              *)
(***************************************************************************)
RECURSIVE GCD(_, _)
GCD(a, b) == IF b = 0 THEN a ELSE GCD(b, a % b)

Rat(n, d) == LET g == GCD(n, d) IN <<n \div g, d \div g>>

Color(r, g, b, a) == [r |-> r, g |-> g, b |-> b, a |-> a]

\* Color(0, 0, 0, 1)
Black == Color(Rat(0, 1), Rat(0, 1), Rat(0, 1), Rat(1, 1))
\* float4(1.0, 0.0, 0.0, 1.0), written by the kernel for negative centres
InvalidCoordsColor == Color(Rat(1, 1), Rat(0, 1), Rat(0, 1), Rat(1, 1))
\* four zero floats: the contents of a freshly allocated MTLBuffer
ZeroColor == Color(Rat(0, 1), Rat(0, 1), Rat(0, 1), Rat(0, 1))

(***************************************************************************)
(* Frames: the images a ViewportTexture can hand out.                      *)
(***************************************************************************)
PxWhite == Color(Rat(1, 1), Rat(1, 1), Rat(1, 1), Rat(1, 1))
PxBlue == Color(Rat(0, 1), Rat(0, 1), Rat(1, 1), Rat(1, 1))

Image(w, h, rows) == [is_null |-> FALSE, width |-> w, height |-> h, pixels |-> rows]

FrameA == Image(2, 1, << <<PxWhite, PxBlue>> >>)
ValidFrames == {FrameA}
\* get_image() returning a null Ref<Image>, and a 0x0 image
NullImage == [is_null |-> TRUE, width |-> 0, height |-> 0, pixels |-> <<>>]
EmptyImage == Image(0, 0, <<>>)

\* Ref<ViewportTexture>: is_valid() and what get_image() returns
ViewportTexture(valid, img) == [is_valid |-> valid, image |-> img]
NullRef == ViewportTexture(FALSE, NullImage)
TextureArgs == {ViewportTexture(TRUE, img) : img \in ValidFrames \cup {NullImage, EmptyImage}}
               \cup {NullRef}

\* (uint8_t)(channel * 255.0f)
ToByte(ch) == ((ch[1] * ByteMax) \div ch[2]) % (ByteMax + 1)

\* a nullptr MTLTextureRef
NullTexture == [is_null |-> TRUE, width |-> 0, height |-> 0, texels |-> <<>>]

\* the MTLTexture filled from the image: one byte per channel
MakeTexture(img) ==
  [is_null |-> FALSE, width |-> img.width, height |-> img.height,
   texels |-> [y \in 1..img.height |-> [x \in 1..img.width |->
      LET p == img.pixels[y][x] IN
      [r |-> ToByte(p.r), g |-> ToByte(p.g), b |-> ToByte(p.b), a |-> ToByte(p.a)]]]]

(***************************************************************************)
(* The compute kernel simple_test.                                         *)
(***************************************************************************)
Clamp(v, lo, hi) == IF v < lo THEN lo ELSE IF v > hi THEN hi ELSE v

SensorRegion(x, y, r, id) == [center_x |-> x, center_y |-> y, radius |-> r, sensor_id |-> id]

\* The host uploads SensorRegion{float, float, int, int}; the kernel reads the
\* record as a float4 and takes .z as the radius, i.e. the int's bit pattern
\* reinterpreted as a float, then truncates it with int(radius).
KernelRadius(r) ==
  IF r >= 0 /\ r < FloatOneBits THEN 0
  ELSE IF r >= FloatOneBits
       THEN LET e == (r \div 8388608) - 127
                m == 8388608 + (r % 8388608)
            IN IF e >= 23 THEN m ELSE m \div (2 ^ (23 - e))
       ELSE 0

\* sum of the four texels a linear, clamp_to_edge sample at the integer pixel
\* position (sx, sy) blends with weight 1/4 each: the normalised coordinate
\* clamp(s / size, 0, 1) addresses texel coordinate clamp(s, 0, size) - 1/2
TapSum(tex, sx, sy, ch) ==
  LET cx == Clamp(sx, 0, tex.width)
      cy == Clamp(sy, 0, tex.height)
      T(ix, iy) == tex.texels[Clamp(iy, 0, tex.height - 1) + 1][Clamp(ix, 0, tex.width - 1) + 1][ch]
  IN T(cx - 1, cy - 1) + T(cx, cy - 1) + T(cx - 1, cy) + T(cx, cy)

\* acc += color.rgb over the sample positions centre + offs, for one channel
RECURSIVE AccSum(_, _, _, _)
AccSum(tex, region, offs, ch) ==
  IF offs = {} THEN 0
  ELSE LET o == CHOOSE o \in offs : TRUE
       IN TapSum(tex, region.center_x + o[1], region.center_y + o[2], ch)
          + AccSum(tex, region, offs \ {o}, ch)

\* output[sensor_id] of one kernel thread
KernelColor(region, tex) ==
  IF region.center_x < 0 \/ region.center_y < 0 THEN InvalidCoordsColor
  ELSE IF tex.is_null \/ tex.width = 0 \/ tex.height = 0 THEN Black
  ELSE
    LET rk == KernelRadius(region.radius)
        offs == (-rk..rk) \X (-rk..rk)
        sample_count == Cardinality(offs)
        Avg(ch) == Rat(AccSum(tex, region, offs, ch), 4 * ByteMax * sample_count)
    IN Color(Avg("r"), Avg("g"), Avg("b"), Rat(1, 1))

(***************************************************************************)
(* State.                                                                  *)
(***************************************************************************)
VARIABLES
  \* environment: MTLCreateSystemDefaultDevice() returns a device
  device_present,
  \* BatchMetalResourceManager: g_batch_metal_initialized
  g_batch_metal_initialized,
  \* BatchComputeManager
  is_initialized, is_processing, max_sensors, sample_radius,
  sensor_regions, sensor_results,
  sensor_regions_buffer, output_buffer, sensor_count_buffer, viewport_texture,
  \* cycle thread: position inside process_sensors, its argument, its last
  \* return value
  pc, texture_arg, last_ret,
  \* mutator thread: position inside shutdown
  mpc,
  \* LightSensorManager: is_initialized, batch_compute_manager # nullptr,
  \* sensors, sensor_id_to_index, next_sensor_id, sample_radius,
  \* use_gpu_acceleration, and the position inside _process_sensors
  lsm_is_initialized, batch_compute_manager, sensors, sensor_id_to_index,
  next_sensor_id, lsm_sample_radius, use_gpu_acceleration, lsm_pc,
  \* history variables (not program state)
  interf, results_at_begin, latest, last_add, lsm_call,
  \* lifecycle specification. Per calling thread: its position inside
  \* initialize, shutdown or set_max_sensors, the value its last initialize
  \* returned, the handles its _cleanup_metal_resources found set, and the
  \* vectors as its reserve found them
  lpc, lc_ret, seen, reserve_copy,
  \* the process died on an access through a null or released handle
  crashed,
  \* history variables of the lifecycle specification (not program state)
  creations, allocated, double_release, concurrent, after_shutdown,
  \* LightDataSensor3D: is_running, has_new_color, frame_ready, frame_rgba32f
  \* (the sample it holds), last_color, use_metal, readback_thread.joinable(),
  \* the holder of frame_mutex
  is_running, has_new_color, frame_ready, frame_rgba32f, last_color, use_metal,
  readback_thread, frame_mutex,
  \* readback thread: position inside _metal_readback_loop and its local pixels
  wpc, pixels,
  \* main thread: position inside stop, _process or force_sample
  main_pc,
  \* the number of frames the viewport has handed out
  frame_no,
  \* history variables of the sensor (not program state): the colour handed out
  \* last, how often each sample's colour was signalled, the last force_sample
  delivered, emit_count, force_ret,
  \* LightDataSensor3D on Windows: which of d3d_device, d3d_root_sig, d3d_pso and
  \* fence are set, the work on d3d_queue, the float4 in d3d_output_readback, and
  \* what _readback_loop assigns: current_color, has_new_readings
  d3d, gpu, d3d_output_readback, current_color, has_new_readings,
  \* history variable of the sequential specification (not program state): the
  \* last remove_sensor call: its argument, whether that id was registered, the
  \* result it had and the number of sensors the call left
  last_remove,
  \* BatchComputeManager with the direct texture access option
  use_direct_texture_access,
  \* LightSensorManager::_emit_sensor_signals step by step: the owner of
  \* sensor_mutex, the position inside the function, the index of its loop and
  \* the copy of get_all_results() it works on
  sensor_mutex, sig_pc, sig_i, sig_results,
  \* the buffers of the D3D12 readback loop (allocated, current_input_capacity,
  \* the state each default-heap buffer is in) and, as history, the transition
  \* barriers of the last command list with the state they met
  d3d_buffers, barrier_log

bcm_vars == <<device_present, g_batch_metal_initialized, is_initialized, is_processing,
              max_sensors, sample_radius, sensor_regions, sensor_results,
              sensor_regions_buffer, output_buffer, sensor_count_buffer, viewport_texture>>
thread_vars == <<pc, texture_arg, last_ret, mpc>>
lsm_vars == <<lsm_is_initialized, batch_compute_manager, sensors, sensor_id_to_index,
              next_sensor_id, lsm_sample_radius, use_gpu_acceleration, lsm_pc>>
hist_vars == <<interf, results_at_begin, latest, last_add, lsm_call>>
\* the callers and the bookkeeping of the lifecycle specification
lc_vars == <<lpc, lc_ret, seen, reserve_copy, crashed,
             creations, allocated, double_release, concurrent, after_shutdown>>
\* what the specifications of the batch and light sensor managers leave alone
\* LightDataSensor3D and its readback thread
lds_vars == <<is_running, has_new_color, frame_ready, frame_rgba32f, last_color, use_metal,
              readback_thread, frame_mutex, wpc, pixels, main_pc, frame_no,
              delivered, emit_count, force_ret>>
\* the D3D12 objects of a LightDataSensor3D on Windows and its readback thread
win_vars == <<d3d, gpu, d3d_output_readback, current_color, has_new_readings>>
\* the bookkeeping of the sequential specification
seq_vars == <<last_remove>>
\* the configuration of the frame source
tier_vars == <<use_direct_texture_access>>
\* the signal emission of LightSensorManager
sig_vars == <<sensor_mutex, sig_pc, sig_i, sig_results>>
\* the buffers of the D3D12 readback loop
res_vars == <<d3d_buffers, barrier_log>>
\* what the lifecycle specification leaves alone
sensor_vars == <<lds_vars, win_vars, seq_vars, tier_vars, sig_vars, res_vars>>
ext_vars == <<lc_vars, sensor_vars>>
\* what the specification of the sensor leaves alone
mgr_vars == <<bcm_vars, thread_vars, lsm_vars, hist_vars, lc_vars, win_vars, seq_vars,
              tier_vars, sig_vars, res_vars>>
vars == <<bcm_vars, thread_vars, lsm_vars, hist_vars, ext_vars>>

\* the frames a viewport hands out to one sensor
MaxFrames == 2
\* emissions of one sample's colour that are told apart
MaxEmits == 2
\* the pixel counts a captured region can have
MaxPixelCount == 2
PixelCounts == 1..MaxPixelCount
\* a Color of the sensor, told by the sample its first half and the sample its
\* second half were computed from; sample 0 is the Color a new sensor holds
SampleColor(a, b) == <<a, b>>
\* no force_sample so far
NoForce == [returned |-> FALSE, captured |-> 0, color |-> SampleColor(0, 0)]

\* history: no remove_sensor call recorded
NoRemove == [valid |-> FALSE, id |-> 0, registered |-> FALSE, result |-> Black, left |-> 0]
\* no D3D12 object created: the ComPtr members of a new sensor
NoD3D == [device |-> FALSE, root_sig |-> FALSE, pso |-> FALSE, fence |-> FALSE]
\* nothing submitted to d3d_queue
NoWork == [state |-> "idle", input |-> 0]
\* the buffers of the readback loop before their first allocation
NoBuffers == [allocated |-> FALSE, current_input_capacity |-> 0,
              input |-> "none", output |-> "none"]

\* the threads that call the lifecycle operations
Callers == {1, 2}
\* the Metal objects a BatchComputeManager owns through a raw handle
Handles == {"regions", "output", "count", "texture"}
\* no reserve in progress
NoCopy == [valid |-> FALSE, regions |-> <<>>, results |-> <<>>]

\* a nullptr MTLBufferRef
NullBuffer == [is_null |-> TRUE, cap |-> 0, data |-> <<>>]
\* newBufferWithLength for n records; data are the records the host has
\* written (regions) or the float4 slots (output, zero-filled)
NewRegionsBuffer(n) == [is_null |-> FALSE, cap |-> n, data |-> <<>>]
NewOutputBuffer(n) == [is_null |-> FALSE, cap |-> n, data |-> [i \in 1..n |-> ZeroColor]]
NullCountBuffer == [is_null |-> TRUE, count |-> 0]
NewCountBuffer == [is_null |-> FALSE, count |-> 0]

\* history: nothing recorded
NoRegistration == [registered |-> FALSE, x |-> 0, y |-> 0, r |-> 0]
NoneRegistered == [id \in SensorIds |-> NoRegistration]
NoAdd == [valid |-> FALSE, id |-> 0, x |-> 0, y |-> 0, r |-> 0,
          regions_before |-> <<>>, results_before |-> <<>>]
NoCall == [op |-> "none", ret |-> 0, frame_ok |-> FALSE, stored |-> FALSE,
           init_called |-> FALSE, max_ret |-> 0]

\* the empty std::unordered_map
EmptyMap == [k \in {} |-> 0]

Init ==
  /\ device_present \in BOOLEAN
  /\ g_batch_metal_initialized = FALSE
  /\ is_initialized = FALSE
  /\ is_processing = FALSE
  /\ max_sensors = DefaultMaxSensors
  /\ sample_radius = DefaultSampleRadius
  /\ sensor_regions = <<>>
  /\ sensor_results = <<>>
  /\ sensor_regions_buffer = NullBuffer
  /\ output_buffer = NullBuffer
  /\ sensor_count_buffer = NullCountBuffer
  /\ viewport_texture = NullTexture
  /\ pc = "idle"
  /\ texture_arg = NullRef
  /\ last_ret = "none"
  /\ mpc = "idle"
  /\ lsm_is_initialized = FALSE
  /\ batch_compute_manager = TRUE
  /\ sensors = <<>>
  /\ sensor_id_to_index = EmptyMap
  /\ next_sensor_id = 1
  /\ lsm_sample_radius = DefaultSampleRadius
  /\ use_gpu_acceleration = TRUE
  /\ lsm_pc = "idle"
  /\ interf = "none"
  /\ results_at_begin = <<>>
  /\ latest = NoneRegistered
  /\ last_add = NoAdd
  /\ lsm_call = NoCall
  /\ lpc = [t \in Callers |-> "idle"]
  /\ lc_ret = [t \in Callers |-> "none"]
  /\ seen = [t \in Callers |-> {}]
  /\ reserve_copy = [t \in Callers |-> NoCopy]
  /\ crashed = FALSE
  /\ creations = 0
  /\ allocated = {}
  /\ double_release = FALSE
  /\ concurrent = FALSE
  /\ after_shutdown = "none"
  /\ is_running = FALSE
  /\ has_new_color = FALSE
  /\ frame_ready = FALSE
  /\ frame_rgba32f = 0
  /\ last_color = SampleColor(0, 0)
  /\ use_metal = FALSE
  /\ readback_thread = FALSE
  /\ frame_mutex = "free"
  /\ wpc = "none"
  /\ pixels = 0
  /\ main_pc = "idle"
  /\ frame_no = 0
  /\ delivered = SampleColor(0, 0)
  /\ emit_count = [s \in 1..MaxFrames |-> 0]
  /\ force_ret = NoForce
  /\ d3d = NoD3D
  /\ gpu = NoWork
  /\ d3d_output_readback = 0
  /\ current_color = SampleColor(0, 0)
  /\ has_new_readings = FALSE
  /\ last_remove = NoRemove
  /\ use_direct_texture_access = FALSE
  /\ sensor_mutex = "free"
  /\ sig_pc = "idle"
  /\ sig_i = 0
  /\ sig_results = <<>>
  /\ d3d_buffers = NoBuffers
  /\ barrier_log = <<>>

(***************************************************************************)
(* Registry: the data the operations compute under data_mutex.             *)
(***************************************************************************)
Max(a, b) == IF a >= b THEN a ELSE b
Min(a, b) == IF a <= b THEN a ELSE b

\* std::vector::resize
Resize(v, n, fill) ==
  IF n <= Len(v) THEN SubSeq(v, 1, n) ELSE v \o [i \in 1..(n - Len(v)) |-> fill]

\* std::vector::erase(begin() + index), index 0-based
Erase(v, index) == SubSeq(v, 1, index) \o SubSeq(v, index + 2, Len(v))

\* a lookup that finds nothing, whatever the registry holds
_find_sensor_index_finds_nothing(regions, sensor_id) == -1

\* index (0-based) of the first region with this sensor_id, -1 if none
_find_sensor_index(regions, sensor_id) ==
  IF \E i \in 1..Len(regions) : regions[i].sensor_id = sensor_id
  THEN (CHOOSE i \in 1..Len(regions) :
          /\ regions[i].sensor_id = sensor_id
          /\ \A j \in 1..(i - 1) : regions[j].sensor_id # sensor_id) - 1
  ELSE -1

\* a truncation that resizes sensor_regions only
_resize_buffers_if_needed_regions_only(regions, results, max) ==
  IF Len(regions) > max
  THEN [regions |-> Resize(regions, max, SensorRegion(0, 0, DefaultSampleRadius, 0)),
        results |-> results]
  ELSE [regions |-> regions, results |-> results]

\* sensor_regions.resize(max_sensors); sensor_results.resize(max_sensors)
\* when the count exceeds max_sensors
_resize_buffers_if_needed(regions, results, max) ==
  IF Len(regions) > max
  THEN [regions |-> Resize(regions, max, SensorRegion(0, 0, DefaultSampleRadius, 0)),
        results |-> Resize(results, max, Black)]
  ELSE [regions |-> regions, results |-> results]

\* an add_sensor that leaves the new result uninitialised
add_sensor_data_uninitialised(regions, results, max, sensor_id, screen_x, screen_y, radius) ==
  LET existing_index == _find_sensor_index(regions, sensor_id) IN
  IF existing_index >= 0
  THEN [regions |-> [regions EXCEPT ![existing_index + 1] =
                       SensorRegion(screen_x, screen_y, radius, sensor_id)],
        results |-> results]
  ELSE _resize_buffers_if_needed(
         Append(regions, SensorRegion(screen_x, screen_y, radius, sensor_id)),
         Append(results, ZeroColor), max)

\* the vectors after add_sensor(sensor_id, screen_x, screen_y, radius)
add_sensor_data(regions, results, max, sensor_id, screen_x, screen_y, radius) ==
  LET existing_index == _find_sensor_index(regions, sensor_id) IN
  IF existing_index >= 0
  THEN [regions |-> [regions EXCEPT ![existing_index + 1] =
                       SensorRegion(screen_x, screen_y, radius, sensor_id)],
        results |-> results]
  ELSE _resize_buffers_if_needed(
         Append(regions, SensorRegion(screen_x, screen_y, radius, sensor_id)),
         Append(results, Black), max)

\* a remove_sensor that erases the last result, whatever the index
remove_sensor_data_last_result(regions, results, sensor_id) ==
  LET index == _find_sensor_index(regions, sensor_id) IN
  IF index >= 0
  THEN [regions |-> Erase(regions, index), results |-> Erase(results, Len(results) - 1)]
  ELSE [regions |-> regions, results |-> results]

\* the vectors after remove_sensor(sensor_id)
remove_sensor_data(regions, results, sensor_id) ==
  LET index == _find_sensor_index(regions, sensor_id) IN
  IF index >= 0
  THEN [regions |-> Erase(regions, index), results |-> Erase(results, index)]
  ELSE [regions |-> regions, results |-> results]

\* get_sensor_result(sensor_id)
get_sensor_result(sensor_id) ==
  LET index == _find_sensor_index(sensor_regions, sensor_id) IN
  IF index >= 0 /\ index < Len(sensor_results) THEN sensor_results[index + 1] ELSE Black

\* get_sensor_count()
get_sensor_count == Len(sensor_regions)

\* the sensor ids of a region list
IdsOf(regions) == {regions[i].sensor_id : i \in 1..Len(regions)}
RegisteredIds == IdsOf(sensor_regions)

(***************************************************************************)
(* BatchComputeManager API: the effect of each call on the program state.  *)
(***************************************************************************)
BCM_add_sensor(sensor_id, screen_x, screen_y, radius) ==
  LET d == add_sensor_data(sensor_regions, sensor_results, max_sensors,
                           sensor_id, screen_x, screen_y, radius) IN
  /\ sensor_regions' = d.regions
  /\ sensor_results' = d.results
  /\ UNCHANGED <<device_present, g_batch_metal_initialized, is_initialized, is_processing,
                 max_sensors, sample_radius, sensor_regions_buffer, output_buffer,
                 sensor_count_buffer, viewport_texture>>

BCM_remove_sensor(sensor_id) ==
  LET d == remove_sensor_data(sensor_regions, sensor_results, sensor_id) IN
  /\ sensor_regions' = d.regions
  /\ sensor_results' = d.results
  /\ UNCHANGED <<device_present, g_batch_metal_initialized, is_initialized, is_processing,
                 max_sensors, sample_radius, sensor_regions_buffer, output_buffer,
                 sensor_count_buffer, viewport_texture>>

BCM_clear_all_sensors ==
  /\ sensor_regions' = <<>>
  /\ sensor_results' = <<>>
  /\ UNCHANGED <<device_present, g_batch_metal_initialized, is_initialized, is_processing,
                 max_sensors, sample_radius, sensor_regions_buffer, output_buffer,
                 sensor_count_buffer, viewport_texture>>

BCM_set_sample_radius(radius) ==
  /\ sample_radius' = Max(MinRadius, Min(radius, MaxRadius))
  /\ sensor_regions' = [i \in 1..Len(sensor_regions) |->
                          [sensor_regions[i] EXCEPT !.radius = sample_radius']]
  /\ UNCHANGED <<device_present, g_batch_metal_initialized, is_initialized, is_processing,
                 max_sensors, sensor_results, sensor_regions_buffer, output_buffer,
                 sensor_count_buffer, viewport_texture>>

\* reserve() changes no element
BCM_set_max_sensors(max_count) ==
  /\ max_sensors' = Max(1, max_count)
  /\ UNCHANGED <<device_present, g_batch_metal_initialized, is_initialized, is_processing,
                 sample_radius, sensor_regions, sensor_results, sensor_regions_buffer,
                 output_buffer, sensor_count_buffer, viewport_texture>>

\* an initialize that does not look at is_initialized again under the mutex
BCM_initialize_without_recheck(alloc_ok) ==
  /\ IF ~device_present
     THEN UNCHANGED <<g_batch_metal_initialized, is_initialized, sensor_regions_buffer,
                      output_buffer, sensor_count_buffer>>
     ELSE /\ g_batch_metal_initialized' = TRUE
          /\ IF alloc_ok
             THEN /\ sensor_regions_buffer' = NewRegionsBuffer(max_sensors)
                  /\ output_buffer' = NewOutputBuffer(max_sensors)
                  /\ sensor_count_buffer' = NewCountBuffer
                  /\ is_initialized' = TRUE
             ELSE UNCHANGED <<is_initialized, sensor_regions_buffer, output_buffer,
                              sensor_count_buffer>>
  /\ UNCHANGED <<device_present, is_processing, max_sensors, sample_radius, sensor_regions,
                 sensor_results, viewport_texture>>

\* _init_metal_device, _create_compute_pipelines, _create_buffers under
\* data_mutex; alloc_ok: newBufferWithLength returned the three buffers
BCM_initialize(alloc_ok) ==
  /\ IF is_initialized \/ ~device_present
     THEN UNCHANGED <<g_batch_metal_initialized, is_initialized, sensor_regions_buffer,
                      output_buffer, sensor_count_buffer>>
     ELSE /\ g_batch_metal_initialized' = TRUE
          /\ IF alloc_ok
             THEN /\ sensor_regions_buffer' = NewRegionsBuffer(max_sensors)
                  /\ output_buffer' = NewOutputBuffer(max_sensors)
                  /\ sensor_count_buffer' = NewCountBuffer
                  /\ is_initialized' = TRUE
             ELSE UNCHANGED <<is_initialized, sensor_regions_buffer, output_buffer,
                              sensor_count_buffer>>
  /\ UNCHANGED <<device_present, is_processing, max_sensors, sample_radius, sensor_regions,
                 sensor_results, viewport_texture>>

\* shutdown, up to the lock: is_processing.store(false) and
\* _cleanup_metal_resources(), which runs without data_mutex
BCM_shutdown_cleanup ==
  /\ is_processing' = FALSE
  /\ sensor_count_buffer' = NullCountBuffer
  /\ output_buffer' = NullBuffer
  /\ sensor_regions_buffer' = NullBuffer
  /\ viewport_texture' = NullTexture
  /\ UNCHANGED <<device_present, g_batch_metal_initialized, is_initialized, max_sensors,
                 sample_radius, sensor_regions, sensor_results>>

\* shutdown, under data_mutex: the vectors are cleared
BCM_shutdown_clear ==
  /\ sensor_regions' = <<>>
  /\ sensor_results' = <<>>
  /\ is_initialized' = FALSE
  /\ UNCHANGED <<device_present, g_batch_metal_initialized, is_processing, max_sensors,
                 sample_radius, sensor_regions_buffer, output_buffer, sensor_count_buffer,
                 viewport_texture>>

\* the whole of shutdown(), for a caller no other thread interleaves with
BCM_shutdown ==
  IF ~is_initialized
  THEN UNCHANGED bcm_vars
  ELSE /\ is_processing' = FALSE
       /\ sensor_count_buffer' = NullCountBuffer
       /\ output_buffer' = NullBuffer
       /\ sensor_regions_buffer' = NullBuffer
       /\ viewport_texture' = NullTexture
       /\ sensor_regions' = <<>>
       /\ sensor_results' = <<>>
       /\ is_initialized' = FALSE
       /\ UNCHANGED <<device_present, g_batch_metal_initialized, max_sensors, sample_radius>>

(***************************************************************************)
(* History bookkeeping of the calls made while cycles run.                 *)
(***************************************************************************)
\* which kind of registry call has run since the last process_sensors began
Mark(kind) ==
  IF kind = "remove" /\ interf \in {"none", "remove"} THEN "remove" ELSE "other"

\* a registry call has run: results_at_begin (sensor_results as they were when
\* process_sensors began) is kept only while none has
Interfere(kind) ==
  /\ interf' = Mark(kind)
  /\ results_at_begin' = <<>>

\* the registration the call leaves behind: none when the call itself
\* truncated the new id away
Registered(sensor_id, screen_x, screen_y, radius) ==
  IF sensor_id \in IdsOf(sensor_regions')
  THEN [latest EXCEPT ![sensor_id] =
          [registered |-> TRUE, x |-> screen_x, y |-> screen_y, r |-> radius]]
  ELSE latest

(***************************************************************************)
(* The mutator thread: registry calls made while cycles run.               *)
(***************************************************************************)
initialize ==
  /\ mpc = "idle"
  /\ \E alloc_ok \in BOOLEAN : BCM_initialize(alloc_ok)
  /\ Interfere("initialize")
  /\ UNCHANGED <<thread_vars, lsm_vars, latest, last_add, lsm_call>>
  /\ UNCHANGED ext_vars

\* if (!is_initialized.load()) return;
shutdown ==
  /\ mpc = "idle"
  /\ IF ~is_initialized
     THEN UNCHANGED vars
     ELSE /\ BCM_shutdown_cleanup
          /\ mpc' = "shutdown_clear"
          /\ Interfere("shutdown")
          /\ UNCHANGED <<pc, texture_arg, last_ret, lsm_vars, latest, last_add, lsm_call>>
  /\ UNCHANGED ext_vars

shutdown_clear ==
  /\ mpc = "shutdown_clear"
  /\ BCM_shutdown_clear
  /\ mpc' = "idle"
  /\ Interfere("shutdown")
  /\ latest' = NoneRegistered
  /\ UNCHANGED <<pc, texture_arg, last_ret, lsm_vars, last_add, lsm_call>>
  /\ UNCHANGED ext_vars

add_sensor ==
  /\ mpc = "idle"
  /\ \E sensor_id \in CycleIds, p \in Points, radius \in CycleRadii :
       /\ BCM_add_sensor(sensor_id, p[1], p[2], radius)
       /\ latest' = Registered(sensor_id, p[1], p[2], radius)
  /\ Interfere("add")
  /\ UNCHANGED <<thread_vars, lsm_vars, last_add, lsm_call>>
  /\ UNCHANGED ext_vars

remove_sensor ==
  /\ mpc = "idle"
  /\ \E sensor_id \in CycleIds :
       /\ BCM_remove_sensor(sensor_id)
       /\ latest' = [latest EXCEPT ![sensor_id] = NoRegistration]
  /\ Interfere("remove")
  /\ UNCHANGED <<thread_vars, lsm_vars, last_add, lsm_call>>
  /\ UNCHANGED ext_vars

clear_all_sensors ==
  /\ mpc = "idle"
  /\ BCM_clear_all_sensors
  /\ latest' = NoneRegistered
  /\ Interfere("clear")
  /\ UNCHANGED <<thread_vars, lsm_vars, last_add, lsm_call>>
  /\ UNCHANGED ext_vars

\* set_max_sensors takes no lock: a call that overlaps a step of the cycle is
\* a data race on the vectors it reserves.  The call is made between cycles.
set_max_sensors ==
  /\ mpc = "idle"
  /\ pc = "idle"
  /\ \E max_count \in 0..MaxMaxSensors : BCM_set_max_sensors(max_count)
  /\ Interfere("max")
  /\ UNCHANGED <<thread_vars, lsm_vars, latest, last_add, lsm_call>>
  /\ UNCHANGED ext_vars

(***************************************************************************)
(* The registry API called from one thread, no cycle running.              *)
(***************************************************************************)
Registry_add_sensor ==
  \E sensor_id \in SensorIds, p \in Points, radius \in Radii :
    /\ BCM_add_sensor(sensor_id, p[1], p[2], radius)
    /\ last_add' = [valid |-> TRUE, id |-> sensor_id, x |-> p[1], y |-> p[2], r |-> radius,
                    regions_before |-> sensor_regions, results_before |-> sensor_results]
    /\ UNCHANGED <<thread_vars, lsm_vars, interf, results_at_begin, latest, lsm_call>>
    /\ UNCHANGED ext_vars

Registry_remove_sensor ==
  \E sensor_id \in SensorIds :
    /\ BCM_remove_sensor(sensor_id)
    /\ last_add' = NoAdd
    /\ UNCHANGED <<thread_vars, lsm_vars, interf, results_at_begin, latest, lsm_call>>
    /\ UNCHANGED ext_vars

Registry_clear_all_sensors ==
  /\ BCM_clear_all_sensors
  /\ last_add' = NoAdd
  /\ UNCHANGED <<thread_vars, lsm_vars, interf, results_at_begin, latest, lsm_call>>
  /\ UNCHANGED ext_vars

Registry_set_sample_radius ==
  \E radius \in Radii :
    /\ BCM_set_sample_radius(radius)
    /\ last_add' = NoAdd
    /\ UNCHANGED <<thread_vars, lsm_vars, interf, results_at_begin, latest, lsm_call>>
    /\ UNCHANGED ext_vars

Registry_set_max_sensors ==
  \E max_count \in 0..MaxMaxSensors :
    /\ BCM_set_max_sensors(max_count)
    /\ last_add' = NoAdd
    /\ UNCHANGED <<thread_vars, lsm_vars, interf, results_at_begin, latest, lsm_call>>
    /\ UNCHANGED ext_vars

(***************************************************************************)
(* One processing cycle: process_sensors and its four steps.               *)
(***************************************************************************)
\* what a read past the end of the output allocation can return
OutOfBoundsColors == {ZeroColor, InvalidCoordsColor}

\* process_sensors returns false from the step at hand
CycleFails ==
  /\ is_processing' = FALSE
  /\ last_ret' = "false"
  /\ pc' = "idle"
  /\ texture_arg' = NullRef

\* a process_sensors that drops the stored results when it turns a call down
BCM_process_sensors_dropping_results(tex) ==
  /\ pc = "idle"
  /\ IF ~is_initialized \/ ~tex.is_valid
     THEN /\ last_ret' = "false"
          /\ sensor_results' = [i \in 1..Len(sensor_results) |-> Black]
          /\ UNCHANGED <<pc, is_processing, texture_arg>>
     ELSE /\ is_processing' = TRUE
          /\ texture_arg' = tex
          /\ last_ret' = "none"
          /\ pc' = "create_texture"
          /\ UNCHANGED sensor_results
  /\ UNCHANGED <<device_present, g_batch_metal_initialized, is_initialized, max_sensors,
                 sample_radius, sensor_regions, sensor_regions_buffer,
                 output_buffer, sensor_count_buffer, viewport_texture>>

\* entry of process_sensors(viewport_texture)
BCM_process_sensors(tex) ==
  /\ pc = "idle"
  /\ IF ~is_initialized \/ ~tex.is_valid
     THEN /\ last_ret' = "false"
          /\ UNCHANGED <<pc, is_processing, texture_arg>>
     ELSE /\ is_processing' = TRUE
          /\ texture_arg' = tex
          /\ last_ret' = "none"
          /\ pc' = "create_texture"
  /\ UNCHANGED <<device_present, g_batch_metal_initialized, is_initialized, max_sensors,
                 sample_radius, sensor_regions, sensor_results, sensor_regions_buffer,
                 output_buffer, sensor_count_buffer, viewport_texture>>

process_sensors ==
  /\ \E tex \in TextureArgs : BCM_process_sensors(tex)
  /\ interf' = "none"
  /\ results_at_begin' = sensor_results
  /\ UNCHANGED <<mpc, lsm_vars, latest, last_add, lsm_call>>
  /\ UNCHANGED ext_vars

\* tex_ok: newTextureWithDescriptor and malloc succeeded
_create_viewport_texture ==
  /\ pc = "create_texture"
  /\ \E tex_ok \in BOOLEAN :
       LET img == texture_arg.image IN
       IF \/ ~g_batch_metal_initialized
          \/ img.is_null
          \/ img.width <= 0 \/ img.height <= 0
          \/ ~tex_ok
       THEN CycleFails /\ UNCHANGED viewport_texture
       ELSE /\ viewport_texture' = MakeTexture(img)
            /\ pc' = "update_buffer"
            /\ UNCHANGED <<is_processing, last_ret, texture_arg>>
  /\ UNCHANGED <<device_present, g_batch_metal_initialized, is_initialized, max_sensors,
                 sample_radius, sensor_regions, sensor_results, sensor_regions_buffer,
                 output_buffer, sensor_count_buffer, mpc, lsm_vars, hist_vars>>
  /\ UNCHANGED ext_vars

\* The regions buffer is modelled by the records the kernel can read: the first
\* sensor_count_buffer.count records, which are the ones this memcpy wrote.
\* memcpy copies sensor_regions.size() records whatever the allocation holds.
_update_sensor_regions_buffer ==
  /\ pc = "update_buffer"
  /\ IF sensor_regions_buffer.is_null \/ sensor_count_buffer.is_null
     THEN /\ CycleFails
          /\ UNCHANGED <<sensor_regions_buffer, sensor_count_buffer>>
     ELSE /\ sensor_regions_buffer' = [sensor_regions_buffer EXCEPT !.data = sensor_regions]
          /\ sensor_count_buffer' = [sensor_count_buffer EXCEPT !.count = Len(sensor_regions)]
          /\ pc' = "dispatch"
          /\ UNCHANGED <<is_processing, last_ret, texture_arg>>
  /\ UNCHANGED <<device_present, g_batch_metal_initialized, is_initialized, max_sensors,
                 sample_radius, sensor_regions, sensor_results, output_buffer,
                 viewport_texture, mpc, lsm_vars, hist_vars>>
  /\ UNCHANGED ext_vars

\* output after the kernel ran with `threads` threadgroups: thread i returns at
\* once when i >= sensor_count[0]; a write past the allocation lands in the
\* memory behind it (landed) or is lost
KernelOutput(out, regions_buf, count, threads, tex, landed) ==
  LET active == Min(threads, count)
      len == IF landed THEN Max(Len(out.data), active) ELSE Len(out.data)
  IN [out EXCEPT !.data =
        [i \in 1..len |->
           IF i <= active THEN KernelColor(regions_buf.data[i], tex)
           ELSE IF i <= Len(out.data) THEN out.data[i] ELSE ZeroColor]]

\* submit_ok: commandBuffer and computeCommandEncoder were created
_dispatch_compute_kernel ==
  /\ pc = "dispatch"
  /\ \E submit_ok \in BOOLEAN, landed \in BOOLEAN :
       IF \/ ~g_batch_metal_initialized
          \/ ~submit_ok
          \/ output_buffer.is_null \/ sensor_regions_buffer.is_null
          \/ sensor_count_buffer.is_null
       THEN CycleFails /\ UNCHANGED output_buffer
       ELSE LET sensor_count == Len(sensor_regions) IN
            /\ output_buffer' =
                 IF sensor_count = 0 THEN output_buffer
                 ELSE KernelOutput(output_buffer, sensor_regions_buffer,
                                   sensor_count_buffer.count, sensor_count,
                                   viewport_texture, landed)
            /\ pc' = "read"
            /\ UNCHANGED <<is_processing, last_ret, texture_arg>>
  /\ UNCHANGED <<device_present, g_batch_metal_initialized, is_initialized, max_sensors,
                 sample_radius, sensor_regions, sensor_results, sensor_regions_buffer,
                 sensor_count_buffer, viewport_texture, mpc, lsm_vars, hist_vars>>
  /\ UNCHANGED ext_vars

\* sensor_results after the read-back loop; garbage is what lies past the
\* memory the output buffer models
ReadBack(out, result_count, garbage) ==
  [i \in 1..result_count |-> IF i <= Len(out.data) THEN out.data[i] ELSE garbage]

\* followed by the end of process_sensors: is_processing.store(false); return true
_read_results ==
  /\ pc = "read"
  /\ IF output_buffer.is_null
     THEN CycleFails /\ UNCHANGED sensor_results
     ELSE /\ \E garbage \in OutOfBoundsColors :
               sensor_results' =
                 IF sensor_regions = <<>> THEN sensor_results
                 ELSE ReadBack(output_buffer, Len(sensor_regions), garbage)
          /\ is_processing' = FALSE
          /\ last_ret' = "true"
          /\ pc' = "idle"
          /\ texture_arg' = NullRef
  /\ UNCHANGED <<device_present, g_batch_metal_initialized, is_initialized, max_sensors,
                 sample_radius, sensor_regions, sensor_regions_buffer, output_buffer,
                 sensor_count_buffer, viewport_texture, mpc, lsm_vars, hist_vars>>
  /\ UNCHANGED ext_vars

(***************************************************************************)
(* LightSensorManager, called from the main thread.                        *)
(***************************************************************************)
\* SensorInfo(id, pos, label) with its screen_position set; last_color starts
\* as Color(0, 0, 0, 1)
SensorInfo(id, screen_pos) ==
  [sensor_id |-> id, screen_position |-> screen_pos, last_color |-> Black]

\* sensor_id_to_index[key] = value
MapPut(map, key, value) ==
  [k \in DOMAIN map \cup {key} |-> IF k = key THEN value ELSE map[k]]

\* LightSensorManager::initialize()
LSM_initialize ==
  /\ lsm_pc = "idle"
  /\ lsm_call' = [op |-> "initialize", ret |-> 0, frame_ok |-> FALSE, stored |-> FALSE,
                  init_called |-> TRUE, max_ret |-> lsm_call.max_ret]
  /\ IF lsm_is_initialized \/ ~batch_compute_manager
     THEN UNCHANGED <<bcm_vars, lsm_is_initialized>>
     ELSE /\ \E alloc_ok \in BOOLEAN : BCM_initialize(alloc_ok)
          /\ lsm_is_initialized' = is_initialized'
  /\ UNCHANGED <<thread_vars, batch_compute_manager, sensors, sensor_id_to_index,
                 next_sensor_id, lsm_sample_radius, use_gpu_acceleration, lsm_pc,
                 interf, results_at_begin, latest, last_add>>
  /\ UNCHANGED ext_vars

\* LightSensorManager::shutdown()
LSM_shutdown ==
  /\ lsm_pc = "idle"
  /\ IF ~lsm_is_initialized
     THEN UNCHANGED vars
     ELSE /\ BCM_shutdown
          /\ batch_compute_manager' = FALSE
          /\ sensors' = <<>>
          /\ sensor_id_to_index' = EmptyMap
          /\ lsm_is_initialized' = FALSE
          /\ lsm_call' = [NoCall EXCEPT !.op = "shutdown", !.max_ret = lsm_call.max_ret]
          /\ UNCHANGED <<thread_vars, next_sensor_id, lsm_sample_radius,
                         use_gpu_acceleration, lsm_pc, interf, results_at_begin, latest,
                         last_add>>
  /\ UNCHANGED ext_vars

\* LightSensorManager::add_sensor(world_position, metadata_label); screen_pos is
\* what _world_to_screen returns for world_position.  The call returns -1
\* while the manager is not initialised.
LSM_add_sensor ==
  /\ lsm_pc = "idle"
  /\ next_sensor_id <= MaxId
  /\ IF ~lsm_is_initialized
     THEN /\ lsm_call' = [lsm_call EXCEPT !.op = "add_sensor", !.ret = -1]
          /\ UNCHANGED <<bcm_vars, sensors, sensor_id_to_index, next_sensor_id>>
     ELSE \E screen_pos \in Points :
            /\ next_sensor_id' = next_sensor_id + 1
            /\ sensors' = Append(sensors, SensorInfo(next_sensor_id, screen_pos))
            /\ sensor_id_to_index' = MapPut(sensor_id_to_index, next_sensor_id, Len(sensors))
            /\ BCM_add_sensor(next_sensor_id, screen_pos[1], screen_pos[2], lsm_sample_radius)
            /\ lsm_call' = [lsm_call EXCEPT !.op = "add_sensor", !.ret = next_sensor_id,
                                            !.max_ret = Max(@, next_sensor_id)]
  /\ UNCHANGED <<thread_vars, lsm_is_initialized, batch_compute_manager, lsm_sample_radius,
                 use_gpu_acceleration, lsm_pc, interf, results_at_begin, latest, last_add>>
  /\ UNCHANGED ext_vars

\* a remove_sensor that leaves the indices of the sensors behind the erased one
LSM_remove_sensor_keeping_indices ==
  /\ lsm_pc = "idle"
  /\ \E sensor_id \in SensorIds :
       IF ~lsm_is_initialized \/ sensor_id \notin DOMAIN sensor_id_to_index
       THEN UNCHANGED <<bcm_vars, sensors, sensor_id_to_index>>
       ELSE LET index == sensor_id_to_index[sensor_id] IN
            /\ BCM_remove_sensor(sensor_id)
            /\ sensors' = Erase(sensors, index)
            /\ sensor_id_to_index' =
                 [k \in DOMAIN sensor_id_to_index \ {sensor_id} |-> sensor_id_to_index[k]]
  /\ lsm_call' = [lsm_call EXCEPT !.op = "remove_sensor"]
  /\ UNCHANGED <<thread_vars, lsm_is_initialized, batch_compute_manager, next_sensor_id,
                 lsm_sample_radius, use_gpu_acceleration, lsm_pc, interf, results_at_begin,
                 latest, last_add>>
  /\ UNCHANGED ext_vars

\* LightSensorManager::remove_sensor(sensor_id)
LSM_remove_sensor ==
  /\ lsm_pc = "idle"
  /\ \E sensor_id \in SensorIds :
       IF ~lsm_is_initialized \/ sensor_id \notin DOMAIN sensor_id_to_index
       THEN UNCHANGED <<bcm_vars, sensors, sensor_id_to_index>>
       ELSE LET index == sensor_id_to_index[sensor_id] IN
            /\ BCM_remove_sensor(sensor_id)
            /\ sensors' = Erase(sensors, index)
            /\ sensor_id_to_index' =
                 [k \in DOMAIN sensor_id_to_index \ {sensor_id} |->
                    IF sensor_id_to_index[k] > index THEN sensor_id_to_index[k] - 1
                    ELSE sensor_id_to_index[k]]
  /\ lsm_call' = [lsm_call EXCEPT !.op = "remove_sensor"]
  /\ UNCHANGED <<thread_vars, lsm_is_initialized, batch_compute_manager, next_sensor_id,
                 lsm_sample_radius, use_gpu_acceleration, lsm_pc, interf, results_at_begin,
                 latest, last_add>>
  /\ UNCHANGED ext_vars

\* a clear_all_sensors that starts the ids over
LSM_clear_all_sensors_resetting_ids ==
  /\ lsm_pc = "idle"
  /\ IF ~lsm_is_initialized
     THEN UNCHANGED <<bcm_vars, sensors, sensor_id_to_index, next_sensor_id>>
     ELSE /\ BCM_clear_all_sensors
          /\ sensors' = <<>>
          /\ sensor_id_to_index' = EmptyMap
          /\ next_sensor_id' = 1
  /\ lsm_call' = [lsm_call EXCEPT !.op = "clear_all_sensors"]
  /\ UNCHANGED <<thread_vars, lsm_is_initialized, batch_compute_manager,
                 lsm_sample_radius, use_gpu_acceleration, lsm_pc, interf, results_at_begin,
                 latest, last_add>>
  /\ UNCHANGED ext_vars

\* LightSensorManager::clear_all_sensors()
LSM_clear_all_sensors ==
  /\ lsm_pc = "idle"
  /\ IF ~lsm_is_initialized
     THEN UNCHANGED <<bcm_vars, sensors, sensor_id_to_index>>
     ELSE /\ BCM_clear_all_sensors
          /\ sensors' = <<>>
          /\ sensor_id_to_index' = EmptyMap
  /\ lsm_call' = [lsm_call EXCEPT !.op = "clear_all_sensors"]
  /\ UNCHANGED <<thread_vars, lsm_is_initialized, batch_compute_manager, next_sensor_id,
                 lsm_sample_radius, use_gpu_acceleration, lsm_pc, interf, results_at_begin,
                 latest, last_add>>
  /\ UNCHANGED ext_vars

\* LightSensorManager::update_sensor_screen_position(sensor_id, screen_pos)
LSM_update_sensor_screen_position ==
  /\ lsm_pc = "idle"
  /\ \E sensor_id \in SensorIds, screen_pos \in Points :
       IF /\ lsm_is_initialized
          /\ sensor_id \in DOMAIN sensor_id_to_index
          /\ sensor_id_to_index[sensor_id] < Len(sensors)
       THEN /\ sensors' = [sensors EXCEPT ![sensor_id_to_index[sensor_id] + 1].screen_position
                                            = screen_pos]
            /\ BCM_add_sensor(sensor_id, screen_pos[1], screen_pos[2], lsm_sample_radius)
       ELSE UNCHANGED <<bcm_vars, sensors>>
  /\ lsm_call' = [lsm_call EXCEPT !.op = "update_sensor_screen_position"]
  /\ UNCHANGED <<thread_vars, lsm_is_initialized, batch_compute_manager, sensor_id_to_index,
                 next_sensor_id, lsm_sample_radius, use_gpu_acceleration, lsm_pc, interf,
                 results_at_begin, latest, last_add>>
  /\ UNCHANGED ext_vars

\* LightSensorManager::set_sample_radius(radius)
LSM_set_sample_radius ==
  /\ lsm_pc = "idle"
  /\ \E radius \in Radii :
       /\ lsm_sample_radius' = Max(MinRadius, Min(radius, MaxRadius))
       /\ IF batch_compute_manager
          THEN BCM_set_sample_radius(lsm_sample_radius')
          ELSE UNCHANGED bcm_vars
  /\ lsm_call' = [lsm_call EXCEPT !.op = "set_sample_radius"]
  /\ UNCHANGED <<thread_vars, lsm_is_initialized, batch_compute_manager, sensors,
                 sensor_id_to_index, next_sensor_id, use_gpu_acceleration, lsm_pc, interf,
                 results_at_begin, latest, last_add>>
  /\ UNCHANGED ext_vars

\* LightSensorManager::set_use_gpu_acceleration(enabled)
LSM_set_use_gpu_acceleration ==
  /\ lsm_pc = "idle"
  /\ \E enabled \in BOOLEAN : use_gpu_acceleration' = enabled
  /\ lsm_call' = [lsm_call EXCEPT !.op = "set_use_gpu_acceleration"]
  /\ UNCHANGED <<bcm_vars, thread_vars, lsm_is_initialized, batch_compute_manager, sensors,
                 sensor_id_to_index, next_sensor_id, lsm_sample_radius, lsm_pc, interf,
                 results_at_begin, latest, last_add>>
  /\ UNCHANGED ext_vars

\* the texture is a frame the kernel can sample
IsFrame(tex) == tex.is_valid /\ tex.image \in ValidFrames

\* LightSensorManager::_process_sensors() up to the call of process_sensors.
\* tex is what viewport->get_texture() hands out now: NullRef when there is no
\* viewport or no texture, and then _update_viewport_cache() fails.  The
\* branch taken when GPU acceleration is off or the batch manager is not
\* available is empty.
LSM__process_sensors ==
  /\ lsm_pc = "idle"
  /\ \E tex \in TextureArgs :
       /\ lsm_call' = [lsm_call EXCEPT !.op = "_process_sensors", !.ret = 0,
                                       !.frame_ok = IsFrame(tex), !.stored = FALSE]
       /\ IF /\ lsm_is_initialized /\ batch_compute_manager
             /\ tex.is_valid
             /\ use_gpu_acceleration /\ is_initialized
          THEN /\ BCM_process_sensors(tex)
               /\ lsm_pc' = "process_sensors"
          ELSE UNCHANGED <<bcm_vars, pc, texture_arg, last_ret, lsm_pc>>
  /\ UNCHANGED <<mpc, lsm_is_initialized, batch_compute_manager, sensors, sensor_id_to_index,
                 next_sensor_id, lsm_sample_radius, use_gpu_acceleration, interf,
                 results_at_begin, latest, last_add>>
  /\ UNCHANGED ext_vars

\* sensors after the loop of _emit_sensor_signals over get_all_results()
EmitSensorSignals(infos, results) ==
  [i \in 1..Len(infos) |->
     IF i <= Len(results) THEN [infos[i] EXCEPT !.last_color = results[i]] ELSE infos[i]]

\* LightSensorManager::_process_sensors() after process_sensors returned:
\* _emit_sensor_signals() if it returned true, nothing otherwise
LSM__emit_sensor_signals ==
  /\ lsm_pc = "process_sensors"
  /\ pc = "idle"
  /\ IF last_ret = "true"
     THEN /\ sensors' = EmitSensorSignals(sensors, sensor_results)
          /\ lsm_call' = [lsm_call EXCEPT !.stored = TRUE]
     ELSE UNCHANGED <<sensors, lsm_call>>
  /\ lsm_pc' = "idle"
  /\ UNCHANGED <<bcm_vars, thread_vars, lsm_is_initialized, batch_compute_manager,
                 sensor_id_to_index, next_sensor_id, lsm_sample_radius,
                 use_gpu_acceleration, interf, results_at_begin, latest, last_add>>
  /\ UNCHANGED ext_vars

\* get_sensor_color(sensor_id)
get_sensor_color(sensor_id) ==
  IF /\ sensor_id \in DOMAIN sensor_id_to_index
     /\ sensor_id_to_index[sensor_id] < Len(sensors)
  THEN sensors[sensor_id_to_index[sensor_id] + 1].last_color
  ELSE Black

(***************************************************************************)
(* Specifications.                                                         *)
(***************************************************************************)
Next ==
  \/ initialize
  \/ shutdown
  \/ shutdown_clear
  \/ add_sensor
  \/ remove_sensor
  \/ clear_all_sensors
  \/ set_max_sensors
  \/ process_sensors
  \/ _create_viewport_texture
  \/ _update_sensor_regions_buffer
  \/ _dispatch_compute_kernel
  \/ _read_results

Spec == Init /\ [][Next]_vars

NextRegistry ==
  \/ Registry_add_sensor
  \/ Registry_remove_sensor
  \/ Registry_clear_all_sensors
  \/ Registry_set_sample_radius
  \/ Registry_set_max_sensors

SpecRegistry == Init /\ [][NextRegistry]_vars

NextLSM ==
  \/ LSM_initialize
  \/ LSM_shutdown
  \/ LSM_add_sensor
  \/ LSM_remove_sensor
  \/ LSM_clear_all_sensors
  \/ LSM_update_sensor_screen_position
  \/ LSM_set_sample_radius
  \/ LSM_set_use_gpu_acceleration
  \/ LSM__process_sensors
  \/ _create_viewport_texture
  \/ _update_sensor_regions_buffer
  \/ _dispatch_compute_kernel
  \/ _read_results
  \/ LSM__emit_sensor_signals

SpecLSM == Init /\ [][NextLSM]_vars

(***************************************************************************)
(* Lifecycle: initialize, shutdown, add_sensor and set_max_sensors called   *)
(* from two threads while a third thread runs process_sensors.  Whatever    *)
(* runs under data_mutex is one step; whatever runs outside it is a step of *)
(* its own.                                                                 *)
(***************************************************************************)
LcIds == {1}
LcPoint == <<0, 0>>
LcFrames == {ViewportTexture(TRUE, FrameA)}
\* the thread that calls set_max_sensors and the thread that calls add_sensor
Resizers == {1}
Adders == {2}

\* the handles that are set
NonNullHandles ==
  {h \in Handles :
     \/ h = "regions" /\ ~sensor_regions_buffer.is_null
     \/ h = "output" /\ ~output_buffer.is_null
     \/ h = "count" /\ ~sensor_count_buffer.is_null
     \/ h = "texture" /\ ~viewport_texture.is_null}

\* a call of another thread is in progress; t = 0 is the cycle thread
Busy(t) == (t # 0 /\ pc # "idle") \/ \E u \in Callers \ {t} : lpc[u] # "idle"

\* a call of thread t begins
Begins(t) ==
  /\ concurrent' = (concurrent \/ Busy(t))
  /\ after_shutdown' = "none"

\* if (is_initialized.load()) return true; outside data_mutex
LC_initialize_check(t) ==
  /\ ~crashed
  /\ lpc[t] = "idle"
  /\ IF is_initialized
     THEN /\ lc_ret' = [lc_ret EXCEPT ![t] = "true"]
          /\ UNCHANGED lpc
     ELSE /\ lc_ret' = [lc_ret EXCEPT ![t] = "none"]
          /\ lpc' = [lpc EXCEPT ![t] = "initialize_locked"]
  /\ Begins(t)
  /\ UNCHANGED <<bcm_vars, thread_vars, lsm_vars, hist_vars, sensor_vars, seen, reserve_copy,
                 crashed, creations, allocated, double_release>>

\* the rest of initialize, under data_mutex
LC_initialize_locked(t) ==
  /\ ~crashed
  /\ lpc[t] = "initialize_locked"
  /\ \E alloc_ok \in BOOLEAN : BCM_initialize(alloc_ok)
  /\ lpc' = [lpc EXCEPT ![t] = "idle"]
  /\ lc_ret' = [lc_ret EXCEPT ![t] = IF is_initialized' THEN "true" ELSE "false"]
  /\ LET made == \/ (~is_initialized /\ is_initialized')
                  \/ <<sensor_regions_buffer, output_buffer, sensor_count_buffer>>'
                       # <<sensor_regions_buffer, output_buffer, sensor_count_buffer>> IN
       /\ creations' = IF made THEN creations + 1 ELSE creations
       /\ allocated' = IF made THEN allocated \cup {"regions", "output", "count"}
                       ELSE allocated
  /\ after_shutdown' = "none"
  /\ UNCHANGED <<thread_vars, lsm_vars, hist_vars, sensor_vars, seen, reserve_copy, crashed,
                 double_release, concurrent>>

\* if (!is_initialized.load()) return; is_processing.store(false);
LC_shutdown_check(t) ==
  /\ ~crashed
  /\ lpc[t] = "idle"
  /\ concurrent' = (concurrent \/ Busy(t))
  /\ IF ~is_initialized
     THEN /\ after_shutdown' = "noop"
          /\ UNCHANGED <<is_processing, lpc>>
     ELSE /\ is_processing' = FALSE
          /\ lpc' = [lpc EXCEPT ![t] = "cleanup"]
          /\ after_shutdown' = "none"
  /\ UNCHANGED <<device_present, g_batch_metal_initialized, is_initialized, max_sensors,
                 sample_radius, sensor_regions, sensor_results, sensor_regions_buffer,
                 output_buffer, sensor_count_buffer, viewport_texture,
                 thread_vars, lsm_vars, hist_vars, sensor_vars, lc_ret, seen, reserve_copy, crashed,
                 creations, allocated, double_release>>

\* _cleanup_metal_resources, no mutex held: the if (handle) tests
LC_cleanup_test(t) ==
  /\ ~crashed
  /\ lpc[t] = "cleanup"
  /\ seen' = [seen EXCEPT ![t] = NonNullHandles]
  /\ lpc' = [lpc EXCEPT ![t] = "cleanup_release"]
  /\ after_shutdown' = "none"
  /\ UNCHANGED <<bcm_vars, thread_vars, lsm_vars, hist_vars, sensor_vars, lc_ret,
                 reserve_copy, crashed,
                 creations, allocated, double_release, concurrent>>

\* a cleanup that releases the texture and leaves its handle set
_cleanup_metal_resources_keeping_texture(found) ==
  /\ sensor_count_buffer' = IF "count" \in found THEN NullCountBuffer ELSE sensor_count_buffer
  /\ output_buffer' = IF "output" \in found THEN NullBuffer ELSE output_buffer
  /\ sensor_regions_buffer' = IF "regions" \in found THEN NullBuffer
                              ELSE sensor_regions_buffer
  /\ viewport_texture' = viewport_texture

\* [handle release]; handle = nullptr; for the handles found set
_cleanup_metal_resources(found) ==
  /\ sensor_count_buffer' = IF "count" \in found THEN NullCountBuffer ELSE sensor_count_buffer
  /\ output_buffer' = IF "output" \in found THEN NullBuffer ELSE output_buffer
  /\ sensor_regions_buffer' = IF "regions" \in found THEN NullBuffer
                              ELSE sensor_regions_buffer
  /\ viewport_texture' = IF "texture" \in found THEN NullTexture ELSE viewport_texture

\* releasing an object that was released before may end the process
LC_cleanup_release(t) ==
  /\ ~crashed
  /\ lpc[t] = "cleanup_release"
  /\ _cleanup_metal_resources(seen[t])
  /\ allocated' = allocated \ seen[t]
  /\ double_release' = (double_release \/ seen[t] \ allocated # {})
  /\ crashed' \in (IF seen[t] \ allocated # {} THEN BOOLEAN ELSE {FALSE})
  /\ seen' = [seen EXCEPT ![t] = {}]
  /\ lpc' = [lpc EXCEPT ![t] = "shutdown_clear"]
  /\ after_shutdown' = "none"
  /\ UNCHANGED <<device_present, g_batch_metal_initialized, is_initialized, is_processing,
                 max_sensors, sample_radius, sensor_regions, sensor_results,
                 thread_vars, lsm_vars, hist_vars, sensor_vars, lc_ret, reserve_copy, creations,
                 concurrent>>

\* the end of shutdown, under data_mutex
LC_shutdown_clear(t) ==
  /\ ~crashed
  /\ lpc[t] = "shutdown_clear"
  /\ BCM_shutdown_clear
  /\ lpc' = [lpc EXCEPT ![t] = "idle"]
  /\ creations' = 0
  /\ after_shutdown' = "done"
  /\ UNCHANGED <<thread_vars, lsm_vars, hist_vars, sensor_vars, lc_ret, seen, reserve_copy, crashed,
                 allocated, double_release, concurrent>>

LC_add_sensor(t) ==
  /\ ~crashed
  /\ lpc[t] = "idle"
  /\ \E sensor_id \in LcIds :
       BCM_add_sensor(sensor_id, LcPoint[1], LcPoint[2], DefaultSampleRadius)
  /\ Begins(t)
  /\ UNCHANGED <<thread_vars, lsm_vars, hist_vars, sensor_vars, lpc, lc_ret, seen,
                 reserve_copy, crashed,
                 creations, allocated, double_release>>

\* max_sensors = Math::max(1, max_count); and the start of the two reserve
\* calls, no mutex held
LC_set_max_sensors(t) ==
  /\ ~crashed
  /\ lpc[t] = "idle"
  /\ \E max_count \in 1..MaxMaxSensors : BCM_set_max_sensors(max_count)
  /\ reserve_copy' = [reserve_copy EXCEPT ![t] =
                        [valid |-> TRUE, regions |-> sensor_regions,
                         results |-> sensor_results]]
  /\ lpc' = [lpc EXCEPT ![t] = "reserve"]
  /\ Begins(t)
  /\ UNCHANGED <<thread_vars, lsm_vars, hist_vars, sensor_vars, lc_ret, seen, crashed,
                 creations, allocated, double_release>>

\* the end of the two reserve calls.  A vector another thread changed while
\* reserve moved it keeps the change, loses it, or the process dies.
LC_reserve_end(t) ==
  /\ ~crashed
  /\ lpc[t] = "reserve"
  /\ LET c == reserve_copy[t]
         raced == c.regions # sensor_regions \/ c.results # sensor_results IN
     \E outcome \in (IF raced THEN {"kept", "lost", "crash"} ELSE {"kept"}) :
       /\ sensor_regions' = IF outcome = "lost" THEN c.regions ELSE sensor_regions
       /\ sensor_results' = IF outcome = "lost" THEN c.results ELSE sensor_results
       /\ crashed' = (outcome = "crash")
  /\ reserve_copy' = [reserve_copy EXCEPT ![t] = NoCopy]
  /\ lpc' = [lpc EXCEPT ![t] = "idle"]
  /\ after_shutdown' = "none"
  /\ UNCHANGED <<device_present, g_batch_metal_initialized, is_initialized, is_processing,
                 max_sensors, sample_radius, sensor_regions_buffer, output_buffer,
                 sensor_count_buffer, viewport_texture,
                 thread_vars, lsm_vars, hist_vars, sensor_vars, lc_ret, seen,
                 creations, allocated, double_release, concurrent>>

LC_process_sensors ==
  /\ ~crashed
  /\ \E tex \in LcFrames : BCM_process_sensors(tex)
  /\ concurrent' = (concurrent \/ Busy(0))
  /\ after_shutdown' = "none"
  /\ UNCHANGED <<mpc, lsm_vars, hist_vars, sensor_vars, lpc, lc_ret, seen, reserve_copy, crashed,
                 creations, allocated, double_release>>

\* the previous texture is released and the handle overwritten, no mutex held
LC_create_viewport_texture ==
  /\ ~crashed
  /\ pc = "create_texture"
  /\ \E tex_ok \in BOOLEAN :
       LET img == texture_arg.image IN
       IF \/ ~g_batch_metal_initialized
          \/ img.is_null
          \/ img.width <= 0 \/ img.height <= 0
          \/ ~tex_ok
       THEN /\ CycleFails
            /\ UNCHANGED <<viewport_texture, allocated, double_release>>
       ELSE /\ viewport_texture' = MakeTexture(img)
            /\ allocated' = allocated \cup {"texture"}
            /\ double_release' =
                 (double_release \/ (~viewport_texture.is_null /\ "texture" \notin allocated))
            /\ pc' = "update_buffer"
            /\ UNCHANGED <<is_processing, last_ret, texture_arg>>
  /\ after_shutdown' = "none"
  /\ UNCHANGED <<device_present, g_batch_metal_initialized, is_initialized, max_sensors,
                 sample_radius, sensor_regions, sensor_results, sensor_regions_buffer,
                 output_buffer, sensor_count_buffer, mpc, lsm_vars, hist_vars, sensor_vars,
                 lpc, lc_ret, seen, reserve_copy, crashed, creations, concurrent>>

\* _update_sensor_regions_buffer: the test of the two handles, before the lock
LC_update_check ==
  /\ ~crashed
  /\ pc = "update_buffer"
  /\ IF sensor_regions_buffer.is_null \/ sensor_count_buffer.is_null
     THEN CycleFails
     ELSE /\ pc' = "update_locked"
          /\ UNCHANGED <<is_processing, last_ret, texture_arg>>
  /\ UNCHANGED <<device_present, g_batch_metal_initialized, is_initialized, max_sensors,
                 sample_radius, sensor_regions, sensor_results, sensor_regions_buffer,
                 output_buffer, sensor_count_buffer, viewport_texture, mpc, lsm_vars,
                 hist_vars, ext_vars>>

\* _update_sensor_regions_buffer under data_mutex: memcpy and the count.  With
\* the buffers released since the test the writes go through a nil or a
\* released MTLBuffer: the process dies or the writes are lost.
LC_update_copy ==
  /\ ~crashed
  /\ pc = "update_locked"
  /\ IF sensor_regions_buffer.is_null \/ sensor_count_buffer.is_null
     THEN /\ crashed' \in BOOLEAN
          /\ UNCHANGED <<sensor_regions_buffer, sensor_count_buffer>>
     ELSE /\ sensor_regions_buffer' = [sensor_regions_buffer EXCEPT !.data = sensor_regions]
          /\ sensor_count_buffer' = [sensor_count_buffer EXCEPT !.count = Len(sensor_regions)]
          /\ UNCHANGED crashed
  /\ pc' = "dispatch"
  /\ UNCHANGED <<device_present, g_batch_metal_initialized, is_initialized, is_processing,
                 max_sensors, sample_radius, sensor_regions, sensor_results, output_buffer,
                 viewport_texture, texture_arg, last_ret, mpc, lsm_vars, hist_vars, sensor_vars,
                 lpc, lc_ret, seen, reserve_copy, creations, allocated, double_release,
                 concurrent, after_shutdown>>

LC_dispatch_compute_kernel ==
  /\ ~crashed
  /\ _dispatch_compute_kernel

\* _read_results: the test of output_buffer, before the lock
LC_read_check ==
  /\ ~crashed
  /\ pc = "read"
  /\ IF output_buffer.is_null
     THEN CycleFails
     ELSE /\ pc' = "read_locked"
          /\ UNCHANGED <<is_processing, last_ret, texture_arg>>
  /\ UNCHANGED <<device_present, g_batch_metal_initialized, is_initialized, max_sensors,
                 sample_radius, sensor_regions, sensor_results, sensor_regions_buffer,
                 output_buffer, sensor_count_buffer, viewport_texture, mpc, lsm_vars,
                 hist_vars, ext_vars>>

\* _read_results under data_mutex, and the end of process_sensors.  With the
\* output buffer released since the test, contents is nil (return false) or
\* the loop reads released memory.
LC_read_copy ==
  /\ ~crashed
  /\ pc = "read_locked"
  /\ IF sensor_regions # <<>> /\ output_buffer.is_null
     THEN \/ CycleFails /\ UNCHANGED sensor_results
          \/ /\ \E garbage \in OutOfBoundsColors :
                  sensor_results' = [i \in 1..Len(sensor_regions) |-> garbage]
             /\ is_processing' = FALSE
             /\ last_ret' = "true"
             /\ pc' = "idle"
             /\ texture_arg' = NullRef
     ELSE /\ \E garbage \in OutOfBoundsColors :
               sensor_results' =
                 IF sensor_regions = <<>> THEN sensor_results
                 ELSE ReadBack(output_buffer, Len(sensor_regions), garbage)
          /\ is_processing' = FALSE
          /\ last_ret' = "true"
          /\ pc' = "idle"
          /\ texture_arg' = NullRef
  /\ UNCHANGED <<device_present, g_batch_metal_initialized, is_initialized, max_sensors,
                 sample_radius, sensor_regions, sensor_regions_buffer, output_buffer,
                 sensor_count_buffer, viewport_texture, mpc, lsm_vars, hist_vars,
                 ext_vars>>

NextLifecycle ==
  \/ \E t \in Callers : LC_initialize_check(t)
  \/ \E t \in Callers : LC_initialize_locked(t)
  \/ \E t \in Callers : LC_shutdown_check(t)
  \/ \E t \in Callers : LC_cleanup_test(t)
  \/ \E t \in Callers : LC_cleanup_release(t)
  \/ \E t \in Callers : LC_shutdown_clear(t)
  \/ \E t \in Adders : LC_add_sensor(t)
  \/ \E t \in Resizers : LC_set_max_sensors(t)
  \/ \E t \in Resizers : LC_reserve_end(t)
  \/ LC_process_sensors
  \/ LC_create_viewport_texture
  \/ LC_update_check
  \/ LC_update_copy
  \/ LC_dispatch_compute_kernel
  \/ LC_read_check
  \/ LC_read_copy

SpecLifecycle == Init /\ [][NextLifecycle]_vars

(***************************************************************************)
(* LightDataSensor3D: the main thread calls start, stop, _process,          *)
(* force_sample and get_light_data; the readback thread runs                *)
(* _metal_readback_loop.  A colour is the pair of the samples its first and *)
(* its second half were computed from; sample 0 is the colour a new sensor  *)
(* holds.                                                                   *)
(***************************************************************************)
\* emit_signal("data_updated", color)
Emit(color) ==
  /\ delivered' = color
  /\ emit_count' = IF color[1] = color[2] /\ color[1] > 0
                   THEN [emit_count EXCEPT ![color[1]] = Min(MaxEmits, @ + 1)]
                   ELSE emit_count

\* frame_cv.notify_one / notify_all: a thread blocked in wait goes on to take
\* frame_mutex and to evaluate the predicate
Notified(w) == IF w = "waiting" THEN "acquire" ELSE w

\* start(); metal_ok: _init_metal_compute built the pipeline
LDS_start ==
  /\ main_pc = "idle"
  /\ IF is_running
     THEN UNCHANGED <<is_running, has_new_color, use_metal, readback_thread, wpc>>
     ELSE /\ is_running' = TRUE
          /\ has_new_color' = FALSE
          /\ \E metal_ok \in BOOLEAN : use_metal' = (use_metal \/ metal_ok)
          /\ IF use_metal' /\ ~readback_thread
             THEN readback_thread' = TRUE /\ wpc' = "top"
             ELSE UNCHANGED <<readback_thread, wpc>>
  /\ UNCHANGED <<frame_ready, frame_rgba32f, last_color, frame_mutex, pixels, main_pc,
                 frame_no, delivered, emit_count, force_ret, mgr_vars>>

\* stop(): is_running = false; frame_cv.notify_all();
LDS_stop ==
  /\ main_pc = "idle"
  /\ IF ~is_running
     THEN UNCHANGED <<is_running, wpc, main_pc>>
     ELSE /\ is_running' = FALSE
          /\ wpc' = Notified(wpc)
          /\ main_pc' = "stop_join"
  /\ UNCHANGED <<has_new_color, frame_ready, frame_rgba32f, last_color, use_metal,
                 readback_thread, frame_mutex, pixels, frame_no, delivered, emit_count,
                 force_ret, mgr_vars>>

\* stop(): if (readback_thread.joinable()) readback_thread.join();
\* set_process(false);  join returns when the loop has returned
LDS_stop_join ==
  /\ main_pc = "stop_join"
  /\ IF readback_thread
     THEN /\ wpc = "done"
          /\ readback_thread' = FALSE
          /\ wpc' = "none"
     ELSE UNCHANGED <<readback_thread, wpc>>
  /\ main_pc' = "idle"
  /\ UNCHANGED <<is_running, has_new_color, frame_ready, frame_rgba32f, last_color,
                 use_metal, frame_mutex, pixels, frame_no, delivered, emit_count,
                 force_ret, mgr_vars>>

\* the frames the viewport can still hand out; vp_ok: viewport, texture and
\* image are there
ViewportOutcomes == IF frame_no < MaxFrames THEN BOOLEAN ELSE {FALSE}

\* _capture_center_region_for_gpu: the region of a new frame is published
\* under frame_mutex, then frame_cv.notify_one()
Capture(vp_ok) ==
  IF vp_ok
  THEN /\ frame_mutex = "free"
       /\ frame_no' = frame_no + 1
       /\ frame_rgba32f' = frame_no + 1
       /\ frame_ready' = TRUE
       /\ wpc' = Notified(wpc)
  ELSE UNCHANGED <<frame_no, frame_rgba32f, frame_ready, wpc>>

\* _sample_viewport_color: last_color is the average of a new frame
Sample(vp_ok) ==
  IF vp_ok
  THEN /\ frame_no' = frame_no + 1
       /\ last_color' = SampleColor(frame_no + 1, frame_no + 1)
  ELSE UNCHANGED <<frame_no, last_color>>

\* _process(p_delta) up to the exchange; elapsed: time_since_last_sample has
\* reached poll_interval_seconds
LDS__process ==
  /\ main_pc = "idle"
  /\ is_running
  /\ \E elapsed \in BOOLEAN, vp_ok \in ViewportOutcomes :
       IF ~elapsed
       THEN /\ main_pc' = "exchange"
            /\ UNCHANGED <<has_new_color, frame_ready, frame_rgba32f, last_color, wpc,
                           frame_no, delivered, emit_count>>
       ELSE IF use_metal
       THEN /\ Capture(vp_ok)
            /\ main_pc' = "exchange"
            /\ UNCHANGED <<has_new_color, last_color, delivered, emit_count>>
       ELSE /\ Sample(vp_ok)
            /\ has_new_color' = TRUE
            /\ Emit(last_color')
            /\ UNCHANGED <<main_pc, frame_ready, frame_rgba32f, wpc>>
  /\ UNCHANGED <<is_running, use_metal, readback_thread, frame_mutex, pixels, force_ret,
                 mgr_vars>>

\* if (has_new_color.exchange(false))
LDS__process_exchange ==
  /\ main_pc = "exchange"
  /\ has_new_color' = FALSE
  /\ main_pc' = IF has_new_color THEN "emit" ELSE "idle"
  /\ UNCHANGED <<is_running, frame_ready, frame_rgba32f, last_color, use_metal,
                 readback_thread, frame_mutex, wpc, pixels, frame_no, delivered,
                 emit_count, force_ret, mgr_vars>>

\* emit_signal("data_updated", last_color);
LDS__process_emit ==
  /\ main_pc = "emit"
  /\ Emit(last_color)
  /\ main_pc' = "idle"
  /\ UNCHANGED <<is_running, has_new_color, frame_ready, frame_rgba32f, last_color,
                 use_metal, readback_thread, frame_mutex, wpc, pixels, frame_no,
                 force_ret, mgr_vars>>

\* force_sample() up to its return statement
LDS_force_sample ==
  /\ main_pc = "idle"
  /\ \E vp_ok \in ViewportOutcomes :
       /\ IF use_metal
          THEN Capture(vp_ok) /\ UNCHANGED last_color
          ELSE Sample(vp_ok) /\ UNCHANGED <<frame_rgba32f, frame_ready, wpc>>
       /\ force_ret' = [returned |-> FALSE, captured |-> IF vp_ok THEN frame_no + 1 ELSE 0,
                        color |-> SampleColor(0, 0)]
  /\ main_pc' = "force_return"
  /\ UNCHANGED <<is_running, has_new_color, use_metal, readback_thread, frame_mutex,
                 pixels, delivered, emit_count, mgr_vars>>

\* return get_light_data(); or data["color"] = last_color; return data;
LDS_force_sample_return ==
  /\ main_pc = "force_return"
  /\ force_ret' = [force_ret EXCEPT !.returned = TRUE, !.color = last_color]
  /\ delivered' = last_color
  /\ main_pc' = "idle"
  /\ UNCHANGED <<is_running, has_new_color, frame_ready, frame_rgba32f, last_color,
                 use_metal, readback_thread, frame_mutex, wpc, pixels, frame_no,
                 emit_count, mgr_vars>>

\* get_light_data()
LDS_get_light_data ==
  /\ main_pc = "idle"
  /\ delivered' = last_color
  /\ UNCHANGED <<is_running, has_new_color, frame_ready, frame_rgba32f, last_color,
                 use_metal, readback_thread, frame_mutex, wpc, pixels, main_pc, frame_no,
                 emit_count, force_ret, mgr_vars>>

\* what the steps of the readback thread leave alone
worker_frame == <<is_running, use_metal, readback_thread, main_pc, frame_no, delivered,
                  emit_count, force_ret, mgr_vars>>

\* while (is_running)
Loop_while ==
  /\ wpc = "top"
  /\ wpc' = IF is_running THEN "acquire" ELSE "done"
  /\ UNCHANGED <<has_new_color, frame_ready, frame_rgba32f, last_color, frame_mutex,
                 pixels, worker_frame>>

\* frame_mutex is taken, on entry or on return from the wait, and the
\* predicate frame_ready || !is_running is evaluated
Loop_predicate ==
  /\ wpc = "acquire"
  /\ frame_mutex = "free"
  /\ frame_mutex' = "worker"
  /\ wpc' = IF frame_ready \/ ~is_running THEN "after_wait" ELSE "block"
  /\ UNCHANGED <<has_new_color, frame_ready, frame_rgba32f, last_color, pixels,
                 worker_frame>>

\* the predicate was false: wait releases frame_mutex and blocks
Loop_wait ==
  /\ wpc = "block"
  /\ frame_mutex' = "free"
  /\ wpc' = "waiting"
  /\ UNCHANGED <<has_new_color, frame_ready, frame_rgba32f, last_color, pixels,
                 worker_frame>>

\* a wait may return without a notification
Loop_spurious_wakeup ==
  /\ wpc = "waiting"
  /\ wpc' = "acquire"
  /\ UNCHANGED <<has_new_color, frame_ready, frame_rgba32f, last_color, frame_mutex,
                 pixels, worker_frame>>

\* a loop that copies the frame and leaves frame_ready set
Loop_take_frame_keeping_flag ==
  /\ wpc = "after_wait"
  /\ frame_mutex' = "free"
  /\ IF ~is_running
     THEN wpc' = "done" /\ UNCHANGED <<frame_ready, pixels>>
     ELSE /\ UNCHANGED frame_ready
          /\ pixels' = frame_rgba32f
          /\ wpc' = IF frame_rgba32f = 0 THEN "top" ELSE "write_first"
  /\ UNCHANGED <<has_new_color, frame_rgba32f, last_color, worker_frame>>

\* if (!is_running) break; frame_ready = false; pixels = frame_rgba32f;
Loop_take_frame ==
  /\ wpc = "after_wait"
  /\ frame_mutex' = "free"
  /\ IF ~is_running
     THEN wpc' = "done" /\ UNCHANGED <<frame_ready, pixels>>
     ELSE /\ frame_ready' = FALSE
          /\ pixels' = frame_rgba32f
          /\ wpc' = IF frame_rgba32f = 0 THEN "top" ELSE "write_first"
  /\ UNCHANGED <<has_new_color, frame_rgba32f, last_color, worker_frame>>

\* the average of pixels, on the GPU or on the CPU, and the first half of
\* last_color = Color(...)
Loop_write_first ==
  /\ wpc = "write_first"
  /\ last_color' = SampleColor(pixels, last_color[2])
  /\ wpc' = "write_second"
  /\ UNCHANGED <<has_new_color, frame_ready, frame_rgba32f, frame_mutex, pixels,
                 worker_frame>>

\* the second half of last_color = Color(...)
Loop_write_second ==
  /\ wpc = "write_second"
  /\ last_color' = SampleColor(last_color[1], pixels)
  /\ wpc' = "flag"
  /\ UNCHANGED <<has_new_color, frame_ready, frame_rgba32f, frame_mutex, pixels,
                 worker_frame>>

\* has_new_color = true;
Loop_flag ==
  /\ wpc = "flag"
  /\ has_new_color' = TRUE
  /\ wpc' = "top"
  /\ UNCHANGED <<frame_ready, frame_rgba32f, last_color, frame_mutex, pixels,
                 worker_frame>>

\* the steps of _metal_readback_loop that the scheduler runs when they can run
LoopStep ==
  \/ Loop_while
  \/ Loop_predicate
  \/ Loop_wait
  \/ Loop_take_frame
  \/ Loop_write_first
  \/ Loop_write_second
  \/ Loop_flag

NextSensor ==
  \/ LDS_start
  \/ LDS_stop
  \/ LDS_stop_join
  \/ LDS__process
  \/ LDS__process_exchange
  \/ LDS__process_emit
  \/ LDS_force_sample
  \/ LDS_force_sample_return
  \/ LDS_get_light_data
  \/ Loop_while
  \/ Loop_predicate
  \/ Loop_wait
  \/ Loop_spurious_wakeup
  \/ Loop_take_frame
  \/ Loop_write_first
  \/ Loop_write_second
  \/ Loop_flag

SpecSensor == Init /\ [][NextSensor]_vars

\* the readback thread and the join are scheduled; nothing obliges the main
\* thread to call the sensor, nor a wait to return without a notification
SpecSensorFair ==
  Init /\ [][NextSensor]_vars /\ WF_vars(LoopStep) /\ WF_vars(LDS_stop_join)

(***************************************************************************)
(* LightDataSensor3D on Windows: start runs _init_pcie_bar and always       *)
(* spawns _readback_loop; _process takes the GPU path whenever d3d_device   *)
(* is set.  The loop assigns current_color and has_new_readings.            *)
(***************************************************************************)
\* the step of _init_pcie_bar that fails, if any
InitFailures == {"device", "root_signature", "pipeline_state", "fence", "none"}

\* _init_pcie_bar: every object is created into its ComPtr up to the step
\* that fails, where the function returns; what comes later keeps its value
_init_pcie_bar(failed) ==
  IF failed = "device" THEN [d3d EXCEPT !.device = FALSE]
  ELSE IF failed = "root_signature" THEN [d3d EXCEPT !.device = TRUE, !.root_sig = FALSE]
  ELSE IF failed = "pipeline_state"
  THEN [d3d EXCEPT !.device = TRUE, !.root_sig = TRUE, !.pso = FALSE]
  ELSE [device |-> TRUE, root_sig |-> TRUE, pso |-> TRUE, fence |-> (failed = "none")]

\* what the Windows sensor leaves alone
win_base == <<bcm_vars, thread_vars, lsm_vars, hist_vars, lpc, lc_ret, seen, reserve_copy,
              creations, allocated, double_release, concurrent, after_shutdown,
              use_metal, force_ret, seq_vars, tier_vars, sig_vars>>
\* what every step but the submission leaves alone
win_frame == <<win_base, res_vars>>

\* start()
WIN_start ==
  /\ ~crashed
  /\ main_pc = "idle"
  /\ IF is_running
     THEN UNCHANGED <<is_running, has_new_color, d3d, readback_thread, wpc>>
     ELSE /\ is_running' = TRUE
          /\ has_new_color' = FALSE
          /\ \E failed \in InitFailures : d3d' = _init_pcie_bar(failed)
          /\ IF ~readback_thread
             THEN readback_thread' = TRUE /\ wpc' = "top"
             ELSE UNCHANGED <<readback_thread, wpc>>
  /\ UNCHANGED <<frame_ready, frame_rgba32f, last_color, frame_mutex, pixels, main_pc,
                 frame_no, delivered, emit_count, crashed, gpu, d3d_output_readback,
                 current_color, has_new_readings, win_frame>>

WIN_stop == ~crashed /\ LDS_stop

WIN_stop_join == ~crashed /\ LDS_stop_join

\* _process(p_delta) up to the exchange; elapsed: time_since_last_sample has
\* reached poll_interval_seconds
WIN__process ==
  /\ ~crashed
  /\ main_pc = "idle"
  /\ is_running
  /\ \E elapsed \in BOOLEAN, vp_ok \in ViewportOutcomes :
       IF ~elapsed
       THEN /\ main_pc' = "exchange"
            /\ UNCHANGED <<has_new_color, frame_ready, frame_rgba32f, last_color, wpc,
                           frame_no, delivered, emit_count>>
       ELSE IF d3d.device
       THEN /\ Capture(vp_ok)
            /\ main_pc' = "exchange"
            /\ UNCHANGED <<has_new_color, last_color, delivered, emit_count>>
       ELSE /\ Sample(vp_ok)
            /\ has_new_color' = TRUE
            /\ Emit(last_color')
            /\ UNCHANGED <<main_pc, frame_ready, frame_rgba32f, wpc>>
  /\ UNCHANGED <<is_running, readback_thread, frame_mutex, pixels, crashed, win_vars,
                 win_frame>>

WIN__process_exchange == ~crashed /\ LDS__process_exchange

WIN__process_emit == ~crashed /\ LDS__process_emit

WIN_get_light_data == ~crashed /\ LDS_get_light_data

\* what the steps of _readback_loop leave alone
win_worker_frame == <<is_running, has_new_color, last_color, frame_rgba32f, frame_mutex,
                      readback_thread, main_pc, frame_no, delivered, emit_count, d3d,
                      win_frame>>

\* while (is_running) { if (!d3d_device || !d3d_queue) { sleep; continue; }
WinLoop_while ==
  /\ ~crashed
  /\ wpc = "top"
  /\ wpc' = IF ~is_running THEN "done" ELSE IF ~d3d.device THEN "top" ELSE "lock"
  /\ UNCHANGED <<frame_ready, pixels, crashed, gpu, d3d_output_readback, current_color,
                 has_new_readings, win_worker_frame>>

\* the block under frame_mutex: if (!frame_ready) continue; frame_ready = false;
\* pixels = frame_rgba32f; and if (count == 0) continue;
WinLoop_take_frame ==
  /\ ~crashed
  /\ wpc = "lock"
  /\ frame_mutex = "free"
  /\ IF ~frame_ready
     THEN wpc' = "top" /\ UNCHANGED <<frame_ready, pixels>>
     ELSE /\ frame_ready' = FALSE
          /\ pixels' = frame_rgba32f
          /\ wpc' = IF frame_rgba32f = 0 THEN "top" ELSE "submit"
  /\ UNCHANGED <<crashed, gpu, d3d_output_readback, current_color, has_new_readings,
                 win_worker_frame>>

\* the states CreateCommittedResource puts the two default-heap buffers in
CreatedState == [input |-> "COPY_DEST", output |-> "UNORDERED_ACCESS"]

\* if (needed_capacity != current_input_capacity || !d3d_input_buffer): all
\* buffers are created again, in their creation states
AllocateBuffers(bufs, count) ==
  IF count # bufs.current_input_capacity \/ ~bufs.allocated
  THEN [allocated |-> TRUE, current_input_capacity |-> count,
        input |-> CreatedState.input, output |-> CreatedState.output]
  ELSE bufs

\* the transition barriers of the command list, in recording order: to_copy,
\* to_srv, out_to_copy, out_to_uav
RecordedBarriers ==
  << [resource |-> "input", StateBefore |-> "NON_PIXEL_SHADER_RESOURCE",
      StateAfter |-> "COPY_DEST"],
     [resource |-> "input", StateBefore |-> "COPY_DEST",
      StateAfter |-> "NON_PIXEL_SHADER_RESOURCE"],
     [resource |-> "output", StateBefore |-> "UNORDERED_ACCESS",
      StateAfter |-> "COPY_SOURCE"],
     [resource |-> "output", StateBefore |-> "COPY_SOURCE",
      StateAfter |-> "UNORDERED_ACCESS"] >>

\* a transition barrier leaves its resource in StateAfter
ApplyBarrier(bufs, b) == [bufs EXCEPT ![b.resource] = b.StateAfter]

\* the buffers after the barriers of a command list have executed in order
RECURSIVE ExecuteBarriers(_, _)
ExecuteBarriers(bufs, barriers) ==
  IF barriers = <<>>
  THEN bufs
  ELSE ExecuteBarriers(ApplyBarrier(bufs, Head(barriers)), Tail(barriers))

\* each barrier of a command list with the state its resource is in when it
\* executes
RECURSIVE MetStates(_, _)
MetStates(bufs, barriers) ==
  IF barriers = <<>>
  THEN <<>>
  ELSE <<[barrier |-> Head(barriers), met |-> bufs[Head(barriers).resource]] >>
       \o MetStates(ApplyBarrier(bufs, Head(barriers)), Tail(barriers))

\* a barrier whose StateBefore is not the state of its resource
Mismatched(log) == \E i \in DOMAIN log : log[i].barrier.StateBefore # log[i].met

\* the buffers are sized for the count of the frame, pixels and count uploaded,
\* the command list recorded and handed to ExecuteCommandLists; what a dispatch
\* without root signature or pipeline state, or behind a barrier with a wrong
\* StateBefore, writes is not defined
WinLoop_submit ==
  /\ ~crashed
  /\ wpc = "submit"
  /\ \E count \in PixelCounts :
       LET bufs == AllocateBuffers(d3d_buffers, count)
           log == MetStates(bufs, RecordedBarriers)
       IN /\ d3d_buffers' = ExecuteBarriers(bufs, RecordedBarriers)
          /\ barrier_log' = log
          /\ \E written \in (IF d3d.root_sig /\ d3d.pso /\ ~Mismatched(log)
                              THEN {pixels}
                              ELSE {0, pixels}) :
               gpu' = [state |-> "running", input |-> written]
  /\ wpc' = "wait_fence"
  /\ UNCHANGED <<frame_ready, pixels, crashed, d3d_output_readback, current_color,
                 has_new_readings, is_running, has_new_color, last_color, frame_rgba32f,
                 frame_mutex, readback_thread, main_pc, frame_no, delivered, emit_count,
                 d3d, win_base>>

\* the queue finishes the command list: the average is copied to the readback
\* buffer
Gpu_complete ==
  /\ ~crashed
  /\ gpu.state = "running"
  /\ gpu' = [gpu EXCEPT !.state = "done"]
  /\ d3d_output_readback' = gpu.input
  /\ UNCHANGED <<frame_ready, pixels, wpc, crashed, current_color, has_new_readings,
                 win_worker_frame>>

\* _wait_fence: Signal after the command list, then wait for the fence value.
\* Through a null fence the call fence->GetCompletedValue() is undefined: the
\* process dies, or the call comes back
WinLoop_wait_fence ==
  /\ ~crashed
  /\ wpc = "wait_fence"
  /\ IF d3d.fence
     THEN /\ gpu.state = "done"
          /\ wpc' = "read"
          /\ UNCHANGED crashed
     ELSE \E dies \in BOOLEAN :
            /\ crashed' = dies
            /\ wpc' = IF dies THEN wpc ELSE "read"
  /\ UNCHANGED <<frame_ready, pixels, gpu, d3d_output_readback, current_color,
                 has_new_readings, win_worker_frame>>

\* Map of the readback buffer, current_color = Color(p[0..3]);
\* has_new_readings = true; map_ok: Map succeeded
WinLoop_read ==
  /\ ~crashed
  /\ wpc = "read"
  /\ \E map_ok \in BOOLEAN :
       IF map_ok
       THEN /\ current_color' = SampleColor(d3d_output_readback, d3d_output_readback)
            /\ has_new_readings' = TRUE
       ELSE UNCHANGED <<current_color, has_new_readings>>
  /\ wpc' = "top"
  /\ UNCHANGED <<frame_ready, pixels, crashed, gpu, d3d_output_readback,
                 win_worker_frame>>

\* the steps of _readback_loop and of the queue, which run when they can run
WinLoopStep ==
  \/ WinLoop_while
  \/ WinLoop_take_frame
  \/ WinLoop_submit
  \/ Gpu_complete
  \/ WinLoop_wait_fence
  \/ WinLoop_read

NextWindows ==
  \/ WIN_start
  \/ WIN_stop
  \/ WIN_stop_join
  \/ WIN__process
  \/ WIN__process_exchange
  \/ WIN__process_emit
  \/ WIN_get_light_data
  \/ WinLoop_while
  \/ WinLoop_take_frame
  \/ WinLoop_submit
  \/ Gpu_complete
  \/ WinLoop_wait_fence
  \/ WinLoop_read

SpecWindows == Init /\ [][NextWindows]_vars

\* the readback thread and the queue are scheduled, and the engine calls
\* _process on every frame while the sensor runs
SpecWindowsFair ==
  Init /\ [][NextWindows]_vars /\ WF_vars(WinLoopStep) /\ WF_vars(WIN__process)

(***************************************************************************)
(* The BatchComputeManager API called from one thread: every call returns   *)
(* before the next one is made, a processing cycle included.                *)
(***************************************************************************)
\* what a registry call of the sequential specification leaves alone
seq_frame == <<thread_vars, lsm_vars, hist_vars, lc_vars, lds_vars, win_vars, tier_vars,
               sig_vars, res_vars>>

\* radii handed to set_sample_radius, which clamps them, and to add_sensor
SeqRadii == {17}
SeqAddRadii == {MaxRadius}

\* no call is in progress
Returned == pc = "idle" /\ mpc = "idle"

Seq_initialize ==
  /\ Returned
  /\ \E alloc_ok \in BOOLEAN : BCM_initialize(alloc_ok)
  /\ last_remove' = NoRemove /\ UNCHANGED seq_frame

Seq_shutdown ==
  /\ Returned
  /\ BCM_shutdown
  /\ last_remove' = NoRemove /\ UNCHANGED seq_frame

Seq_add_sensor ==
  /\ Returned
  /\ \E sensor_id \in CycleIds, p \in Points, radius \in SeqAddRadii :
       BCM_add_sensor(sensor_id, p[1], p[2], radius)
  /\ UNCHANGED <<last_remove, seq_frame>>

Seq_remove_sensor ==
  /\ Returned
  /\ \E sensor_id \in CycleIds :
       /\ BCM_remove_sensor(sensor_id)
       /\ last_remove' = [valid |-> TRUE, id |-> sensor_id,
                          registered |-> sensor_id \in RegisteredIds,
                          result |-> get_sensor_result(sensor_id),
                          left |-> Len(sensor_regions')]
  /\ UNCHANGED seq_frame

Seq_clear_all_sensors ==
  /\ Returned
  /\ BCM_clear_all_sensors
  /\ last_remove' = NoRemove /\ UNCHANGED seq_frame

Seq_set_sample_radius ==
  /\ Returned
  /\ \E radius \in SeqRadii : BCM_set_sample_radius(radius)
  /\ last_remove' = NoRemove /\ UNCHANGED seq_frame

Seq_set_max_sensors ==
  /\ Returned
  /\ \E max_count \in 0..MaxMaxSensors : BCM_set_max_sensors(max_count)
  /\ last_remove' = NoRemove /\ UNCHANGED seq_frame

Seq_process_sensors ==
  /\ Returned
  /\ \E tex \in TextureArgs : BCM_process_sensors(tex)
  /\ UNCHANGED <<mpc, lsm_vars, hist_vars, lc_vars, lds_vars, win_vars, last_remove,
                 tier_vars, sig_vars, res_vars>>

NextSequential ==
  \/ Seq_initialize
  \/ Seq_shutdown
  \/ Seq_add_sensor
  \/ Seq_remove_sensor
  \/ Seq_clear_all_sensors
  \/ Seq_set_sample_radius
  \/ Seq_set_max_sensors
  \/ Seq_process_sensors
  \/ _create_viewport_texture
  \/ _update_sensor_regions_buffer
  \/ _dispatch_compute_kernel
  \/ _read_results

SpecSequential == Init /\ [][NextSequential]_vars

(***************************************************************************)
(* The kernel against its inputs: one sensor, registered at any of the      *)
(* KernelPoints with any of the KernelRadii, and whole cycles over the      *)
(* KernelFrames.                                                            *)
(***************************************************************************)
\* bit pattern of the float 2.0 (0x40000000)
FloatTwoBits == 1073741824
\* centres handed to add_sensor: left of the image, inside it, and right of it
KernelPoints == {<<-1, 0>>, <<0, 0>>, <<1, 0>>, <<2, 0>>}
\* radii handed to add_sensor: add_sensor stores any int
KernelRadii == {1, DefaultSampleRadius, MaxRadius, FloatOneBits, FloatTwoBits}
\* an image of one colour
UniformColor == PxBlue
UniformFrame == Image(2, 1, << <<UniformColor, UniformColor>> >>)
KernelFrames == {FrameA, UniformFrame}

\* sample_count after the two loops of the kernel: every iteration counts
KernelSampleCount(region) ==
  LET rk == KernelRadius(region.radius) IN (2 * rk + 1) * (2 * rk + 1)

\* float2 center = sensor_region.xy: the two floats the host stored
KernelCenter(region) == <<region.center_x, region.center_y>>

\* the number of integers of [c - r, c + r] that are pixel coordinates of an
\* axis of the given size
InBoundsAlong(c, r, size) == Max(0, Min(c + r, size - 1) - Max(c - r, 0) + 1)

\* the number of positions of the square [center - radius, center + radius]
\* that lie inside an image of width w and height h
InBoundsCount(region, w, h) ==
  InBoundsAlong(region.center_x, region.radius, w)
    * InBoundsAlong(region.center_y, region.radius, h)

\* the square reaches beyond the image
ExtendsBeyond(region, w, h) ==
  \/ region.center_x - region.radius < 0 \/ region.center_x + region.radius > w - 1
  \/ region.center_y - region.radius < 0 \/ region.center_y + region.radius > h - 1

\* _sample_viewport_color: the radius of the square around the image centre
CpuSampleRadius == 4

\* _sample_viewport_color: sample_count after its two loops, which skip the
\* rows and columns outside the image
CpuSampleCount(w, h) ==
  LET cx == w \div 2
      cy == h \div 2
  IN Cardinality({o \in (-CpuSampleRadius..CpuSampleRadius)
                          \X (-CpuSampleRadius..CpuSampleRadius) :
                    /\ ~(cy + o[2] < 0 \/ cy + o[2] >= h)
                    /\ ~(cx + o[1] < 0 \/ cx + o[1] >= w)})

K_initialize ==
  /\ Returned
  /\ \E alloc_ok \in BOOLEAN : BCM_initialize(alloc_ok)
  /\ UNCHANGED <<last_remove, seq_frame>>

K_add_sensor ==
  /\ Returned
  /\ \E p \in KernelPoints, radius \in KernelRadii : BCM_add_sensor(1, p[1], p[2], radius)
  /\ UNCHANGED <<last_remove, seq_frame>>

K_process_sensors ==
  /\ Returned
  /\ \E img \in KernelFrames : BCM_process_sensors(ViewportTexture(TRUE, img))
  /\ UNCHANGED <<mpc, lsm_vars, hist_vars, lc_vars, lds_vars, win_vars, last_remove,
                 tier_vars, sig_vars, res_vars>>

NextKernel ==
  \/ K_initialize
  \/ K_add_sensor
  \/ K_process_sensors
  \/ _create_viewport_texture
  \/ _update_sensor_regions_buffer
  \/ _dispatch_compute_kernel
  \/ _read_results

SpecKernel == Init /\ [][NextKernel]_vars

(***************************************************************************)
(* The frame source with the direct texture access option: the texture of  *)
(* a cycle is the viewport's own GPU texture when that can be had, and the *)
(* texture built from the viewport's image otherwise.                      *)
(***************************************************************************)
\* MetalTextureAccess::isDirectTextureAccessAvailable
isDirectTextureAccessAvailable == FALSE

\* MetalTextureAccess::getMetalTextureFromViewportTexture: nil on every path
getMetalTextureFromViewportTexture(tex) == NullTexture

\* MetalTextureAccess::createMetalTextureFromImage; tex_ok: newTextureWithDescriptor
\* and malloc succeeded
createMetalTextureFromImage(img, tex_ok) ==
  IF img.is_null \/ img.width <= 0 \/ img.height <= 0 \/ ~tex_ok
  THEN NullTexture
  ELSE MakeTexture(img)

\* a frame source that has no image path behind the direct one
AcquireTexture_without_fallback(use_direct, tex, tex_ok) ==
  IF use_direct
  THEN getMetalTextureFromViewportTexture(tex)
  ELSE createMetalTextureFromImage(tex.image, tex_ok)

\* the texture a cycle samples: the direct one when the option is on and direct
\* access is available and succeeds, the one built from the image otherwise
AcquireTexture(use_direct, tex, tex_ok) ==
  LET direct == IF use_direct /\ isDirectTextureAccessAvailable
                THEN getMetalTextureFromViewportTexture(tex)
                ELSE NullTexture
  IN IF direct # NullTexture THEN direct
     ELSE createMetalTextureFromImage(tex.image, tex_ok)

D_set_use_direct_texture_access ==
  /\ Returned
  /\ \E enabled \in BOOLEAN : use_direct_texture_access' = enabled
  /\ UNCHANGED <<bcm_vars, thread_vars, lsm_vars, hist_vars, lc_vars, lds_vars, win_vars,
                 seq_vars, sig_vars, res_vars>>

\* the texture step of process_sensors with the option
D_create_viewport_texture(tex_ok) ==
  /\ pc = "create_texture"
  /\ LET texture == AcquireTexture(use_direct_texture_access, texture_arg, tex_ok) IN
     IF ~g_batch_metal_initialized \/ texture = NullTexture
     THEN CycleFails /\ UNCHANGED viewport_texture
     ELSE /\ viewport_texture' = texture
          /\ pc' = "update_buffer"
          /\ UNCHANGED <<is_processing, last_ret, texture_arg>>
  /\ UNCHANGED <<device_present, g_batch_metal_initialized, is_initialized, max_sensors,
                 sample_radius, sensor_regions, sensor_results, sensor_regions_buffer,
                 output_buffer, sensor_count_buffer, mpc, lsm_vars, hist_vars>>
  /\ UNCHANGED ext_vars

NextDirect ==
  \/ K_initialize
  \/ K_add_sensor
  \/ D_set_use_direct_texture_access
  \/ K_process_sensors
  \/ \E tex_ok \in BOOLEAN : D_create_viewport_texture(tex_ok)
  \/ _update_sensor_regions_buffer
  \/ _dispatch_compute_kernel
  \/ _read_results

SpecDirect == Init /\ [][NextDirect]_vars

(***************************************************************************)
(* Properties.                                                             *)
(***************************************************************************)
\* the region registered under sensor_id
RegionOf(sensor_id) == sensor_regions[_find_sensor_index(sensor_regions, sensor_id) + 1]

\* process_sensors has returned true and only calls of these kinds have run
\* since it began
ReturnedTrue(kinds) == pc = "idle" /\ last_ret = "true" /\ interf \in kinds

\* C1: when only remove_sensor calls have interleaved with a cycle that
\* returned true, and the upload fitted the buffers, get_sensor_result of every
\* sensor still registered is the colour the kernel computes for that sensor's
\* own region.
C1_SurvivorKeepsOwnColor ==
  (/\ ReturnedTrue({"none", "remove"})
   /\ Len(sensor_regions_buffer.data) <= output_buffer.cap)
  => \A id \in RegisteredIds :
       get_sensor_result(id) = KernelColor(RegionOf(id), viewport_texture)

\* C2: the thread count dispatched and the number of results read back are
\* the number of regions uploaded in the same process_sensors call, i.e. the
\* registry has the size of the uploaded snapshot when the kernel is
\* dispatched and when the results are read.
C2_OneSnapshotPerCycle ==
  [][/\ (pc = "dispatch" /\ pc' = "read")
          => Len(sensor_regions) = sensor_count_buffer.count
     /\ (pc = "read" /\ last_ret' = "true")
          => Len(sensor_regions) = sensor_count_buffer.count]_vars

\* C3: when process_sensors has returned false and no registry call ran
\* meanwhile, sensor_results are exactly those stored when the call began.
C3_FailedCycleKeepsResults ==
  (pc = "idle" /\ last_ret = "false" /\ interf = "none")
  => sensor_results = results_at_begin

\* a call that failed after a cycle had stored colours: the current regions
\* are uploaded, yet a stored colour is an older one
C3_Witness ==
  /\ pc = "idle" /\ last_ret = "false" /\ interf = "none"
  /\ sensor_regions # <<>>
  /\ sensor_regions_buffer.data = sensor_regions
  /\ Len(sensor_results) = Len(sensor_regions)
  /\ \E i \in 1..Len(sensor_results) :
       /\ sensor_results[i] # Black
       /\ sensor_results[i] # KernelColor(sensor_regions[i], viewport_texture)

\* C4: a LightSensorManager cycle that has a valid frame and at least one
\* sensor stores a result for every sensor, whichever way the GPU path ends or
\* is skipped; and add_sensor registers (does not return -1) after initialize
\* was called on a machine without a device.
C4_CpuFallback ==
  /\ (/\ lsm_pc = "idle" /\ lsm_call.op = "_process_sensors"
      /\ lsm_call.frame_ok /\ Len(sensors) >= 1)
     => lsm_call.stored
  /\ (lsm_call.op = "add_sensor" /\ lsm_call.init_called /\ ~device_present)
     => lsm_call.ret # -1

\* C5: after process_sensors returned true with no registry call meanwhile,
\* sensor_results holds one colour per region, in the regions' order, and
\* get_sensor_result(id) is the colour the kernel computes for id's region
\* from this cycle's texture.
C5_ResultsMatchRegions ==
  ReturnedTrue({"none"})
  => /\ Len(sensor_results) = Len(sensor_regions)
     /\ \A i \in 1..Len(sensor_regions) :
          sensor_results[i] = KernelColor(sensor_regions[i], viewport_texture)
     /\ \A id \in RegisteredIds :
          get_sensor_result(id) = KernelColor(RegionOf(id), viewport_texture)

\* the last call was add_sensor for an id that was registered
AddedExisting == last_add.valid /\ last_add.id \in IdsOf(last_add.regions_before)

\* C6: no two regions share a sensor_id; and right after add_sensor(id, x, y,
\* r) for a registered id the count is what it was, exactly one region has the
\* id and holds x, y, r, and the same call once more changes nothing.
C6_AddExistingUpdatesInPlace ==
  /\ \A i, j \in 1..Len(sensor_regions) :
       sensor_regions[i].sensor_id = sensor_regions[j].sensor_id => i = j
  /\ AddedExisting =>
       /\ get_sensor_count = Len(last_add.regions_before)
       /\ Cardinality({i \in 1..Len(sensor_regions) :
                         sensor_regions[i].sensor_id = last_add.id}) = 1
       /\ \A i \in 1..Len(sensor_regions) :
            sensor_regions[i].sensor_id = last_add.id =>
              sensor_regions[i] = SensorRegion(last_add.x, last_add.y, last_add.r, last_add.id)
       /\ add_sensor_data(sensor_regions, sensor_results, max_sensors,
                          last_add.id, last_add.x, last_add.y, last_add.r)
          = [regions |-> sensor_regions, results |-> sensor_results]

\* an update of one of two registered sensors that changed its region
C6_Witness ==
  /\ AddedExisting
  /\ Len(sensor_regions) = 2
  /\ sensor_regions # last_add.regions_before

\* C7: every registered region has a radius in [1,16].
C7_RadiusInRange ==
  \A i \in 1..Len(sensor_regions) :
    sensor_regions[i].radius >= MinRadius /\ sensor_regions[i].radius <= MaxRadius

\* C8: the records copied at an upload fit the capacity the region and output
\* buffers were allocated with.
C8_UploadWithinCapacity ==
  (~sensor_regions_buffer.is_null /\ ~output_buffer.is_null)
  => /\ Len(sensor_regions_buffer.data) <= sensor_regions_buffer.cap
     /\ Len(sensor_regions_buffer.data) <= output_buffer.cap

\* C9: after add_sensor every id that was registered before the call, other
\* than the one passed, still has its region and its stored result.
C9_TruncationKeepsEarlierIds ==
  last_add.valid =>
    \A i \in 1..Len(last_add.regions_before) :
      LET before == last_add.regions_before[i] IN
      before.sensor_id # last_add.id =>
        /\ before.sensor_id \in RegisteredIds
        /\ RegionOf(before.sensor_id) = before
        /\ get_sensor_result(before.sensor_id) = last_add.results_before[i]

\* C10: after process_sensors returned true with no registry call meanwhile,
\* every id whose registration or update had returned before is registered and
\* its result is the colour the kernel computes from its latest position and
\* radius.
C10_MutationsReflected ==
  ReturnedTrue({"none"})
  => \A id \in CycleIds :
       latest[id].registered =>
         /\ id \in RegisteredIds
         /\ get_sensor_result(id) =
              KernelColor(SensorRegion(latest[id].x, latest[id].y, latest[id].r, id),
                          viewport_texture)

\* the GPU resources a cycle works on: the texture, the count and output
\* buffers and the region buffer's allocation
GpuResources ==
  <<viewport_texture, sensor_count_buffer, output_buffer,
    sensor_regions_buffer.is_null, sensor_regions_buffer.cap>>

\* C11: a step of process_sensors taken with no sensor registered, and none
\* registered or removed since the call began, leaves the viewport texture and
\* the buffers as they were and does not make the call fail.
C11_EmptyCycleTouchesNothing ==
  [][(pc' # pc /\ interf' = "none" /\ sensor_regions = <<>>)
       => (GpuResources' = GpuResources /\ last_ret' # "false")]_vars

\* C12: right after a LightSensorManager cycle that stored results, for every
\* sensor id the manager holds, get_sensor_color(id) is the batch manager's
\* get_sensor_result(id).
C12_ColorDeliveredToItsSensor ==
  (lsm_pc = "idle" /\ lsm_call.op = "_process_sensors" /\ lsm_call.stored)
  => \A id \in DOMAIN sensor_id_to_index : get_sensor_color(id) = get_sensor_result(id)

\* C13: the buffers are created at most once between two shutdowns and exactly
\* once while the manager is initialised, with two threads calling initialize
\* at once; a step of initialize that finds the manager initialised returns
\* true and leaves the three buffers as they are.
C13_InitializeCreatesOnce ==
  [][/\ creations' <= 1
     /\ (is_initialized' => creations' = 1)
     /\ \A t \in Callers :
          (is_initialized /\ (LC_initialize_check(t) \/ LC_initialize_locked(t)))
          => (lc_ret'[t] = "true"
              /\ UNCHANGED <<sensor_regions_buffer, output_buffer, sensor_count_buffer>>)]_vars

\* a caller is past the first test of is_initialized and waits for the mutex
\* while the other caller's initialize has created the buffers
C13_Witness ==
  \E t \in Callers : lpc[t] = "initialize_locked" /\ is_initialized /\ creations = 1

C15_NoReleaseUnderCycle ==
  [][/\ pc = "update_locked"
          => {"regions", "count"} \cap NonNullHandles \subseteq NonNullHandles'
     /\ pc = "read_locked"
          => {"output"} \cap NonNullHandles \subseteq NonNullHandles']_vars

\* C16: while set_max_sensors is inside its reserve calls no other operation
\* changes the region list or the result list.
C16_ListsUnderMutex ==
  [][(\E t \in Callers : lpc[t] = "reserve" /\ lpc'[t] = "reserve")
       => UNCHANGED <<sensor_regions, sensor_results>>]_vars

\* C17: once stop() has cleared is_running and notified, it gets past the join
\* and returns, whatever the readback thread was doing.
C17_StopTerminates == (main_pc = "stop_join") ~> (main_pc = "idle")

\* C18: no sample's colour is signalled by data_updated more than once.
C18_SignalledOnce == \A s \in 1..MaxFrames : emit_count[s] <= 1

\* C19: a force_sample() that captured a frame returns the colour computed
\* from that frame.
C19_ForceSampleIsFresh ==
  (force_ret.returned /\ force_ret.captured > 0)
  => force_ret.color = SampleColor(force_ret.captured, force_ret.captured)

\* C20: the colour that get_light_data(), force_sample() or data_updated
\* handed out last is the colour of one sample.
C20_OneSampleColor == delivered[1] = delivered[2]


\* _init_pcie_bar returned early: one of the objects it creates is missing
InitFailed == ~(d3d.device /\ d3d.root_sig /\ d3d.pso /\ d3d.fence)

\* C21: on Windows, when _init_pcie_bar has failed at any step, the sensor's
\* value (last_color, which get_light_data reports) still updates: a _process
\* call that takes a frame on the CPU path stores its colour, and a frame
\* staged for the readback thread ends up in last_color unless a later frame
\* does or the sensor is stopped
C21_FallbackUpdatesColor ==
  /\ [][(WIN__process /\ ~d3d.device /\ frame_no' > frame_no)
          => last_color' = SampleColor(frame_no', frame_no')]_vars
  /\ \A n \in 1..MaxFrames :
       (is_running /\ InitFailed /\ frame_ready /\ frame_rgba32f = n)
         ~> (~is_running \/ (last_color[1] >= n /\ last_color[2] >= n))

\* the sensor ids of the registry, in the order of their regions
IdOrder == [i \in 1..Len(sensor_regions) |-> sensor_regions[i].sensor_id]

\* a sequence without its elements equal to x
Without(seq, x) == SelectSeq(seq, LAMBDA e : e # x)

\* C22: remove_sensor(id) for an id that is not registered changes neither
\* regions nor results; for a registered id it removes exactly that sensor's
\* region and result, and every other sensor keeps its region, its result and
\* its place relative to the others
C22_RemoveOnlyThatSensor ==
  [][\A id \in CycleIds :
       (Returned /\ BCM_remove_sensor(id) /\ last_remove'.valid /\ last_remove'.id = id)
         => IF id \notin RegisteredIds
            THEN UNCHANGED <<sensor_regions, sensor_results>>
            ELSE /\ IdOrder' = Without(IdOrder, id)
                 /\ Len(sensor_results') = Len(sensor_results) - 1
                 /\ \A other \in RegisteredIds \ {id} :
                      /\ RegionOf(other)' = RegionOf(other)
                      /\ get_sensor_result(other)' = get_sensor_result(other)]_vars

\* a registered sensor with a computed result has been removed, and another
\* sensor with a computed result of its own is left
C22_Witness ==
  /\ last_remove.valid /\ last_remove.registered /\ last_remove.left > 0
  /\ last_remove.result # Black
  /\ \E other \in RegisteredIds :
       get_sensor_result(other) \notin {Black, last_remove.result}

\* a cycle completes: _read_results stores the results and process_sensors
\* returns true
CycleCompletes == pc = "read" /\ last_ret' = "true"

\* C23: get_sensor_result(id) is opaque black for an id that is not registered,
\* and for a registered id from its registration until a cycle completes: a
\* new registration starts black, and black stays black in every step that
\* does not complete a cycle
C23_BlackUntilFirstCycle ==
  [][\A id \in CycleIds :
       /\ id \notin RegisteredIds' => get_sensor_result(id)' = Black
       /\ (id \notin RegisteredIds /\ id \in RegisteredIds') => get_sensor_result(id)' = Black
       /\ (~CycleCompletes /\ id \in RegisteredIds /\ id \in RegisteredIds'
             /\ get_sensor_result(id) = Black) => get_sensor_result(id)' = Black]_vars

\* a sensor that had a computed result was removed and registered again, and
\* its result is black
C23_Witness ==
  /\ last_remove.valid /\ last_remove.registered /\ last_remove.result # Black
  /\ last_remove.id \in RegisteredIds
  /\ get_sensor_result(last_remove.id) = Black

\* C30: sensor_results and sensor_regions have the same length in every state
\* reached by add_sensor, remove_sensor, clear_all_sensors, set_sample_radius,
\* set_max_sensors, process_sensors and shutdown
C30_SameLength == Len(sensor_results) = Len(sensor_regions)

\* two sensors are registered and a cycle has stored a result for each
C30_Witness ==
  /\ Len(sensor_regions) = 2
  /\ Returned /\ last_ret = "true"
  /\ \A i \in 1..Len(sensor_results) : sensor_results[i] # Black

\* the kernel runs: the dispatch step of a cycle that gets as far as the read
KernelRuns == pc = "dispatch" /\ pc' = "read"

\* the region records the kernel threads of this dispatch read
Dispatched ==
  {sensor_regions_buffer.data[i] :
     i \in 1..Min(Min(Len(sensor_regions), sensor_count_buffer.count),
                  Len(sensor_regions_buffer.data))}

\* C24: for a region that extends beyond the image the divisor of the kernel's
\* mean is the number of positions of the square [center - radius,
\* center + radius] inside the image, and it is the divisor the CPU path uses
\* for the same square
C24_InBoundsDivisor ==
  [][KernelRuns =>
       \A region \in Dispatched :
         LET w == viewport_texture.width
             h == viewport_texture.height
         IN (/\ region.center_x >= 0 /\ region.center_y >= 0
             /\ ExtendsBeyond(region, w, h))
              => /\ KernelSampleCount(region) = InBoundsCount(region, w, h)
                 /\ (/\ region.center_x = w \div 2 /\ region.center_y = h \div 2
                     /\ region.radius = CpuSampleRadius)
                      => KernelSampleCount(region) = CpuSampleCount(w, h)]_vars

\* C25: after a successful cycle over an image of uniform colour C the result
\* stored for every registered sensor is C, whatever its centre and radius
C25_UniformImageGivesItsColor ==
  [][(CycleCompletes /\ viewport_texture = MakeTexture(UniformFrame))
       => \A i \in 1..Len(sensor_results') : sensor_results'[i] = UniformColor]_vars

\* C29: the kernel thread of a registered sensor with radius r in [1,16] sees
\* the registered centre and iterates over a square of radius exactly r
C29_KernelReadsUploadedRegion ==
  [][KernelRuns =>
       \A region \in Dispatched :
         region.radius \in MinRadius..MaxRadius
           => /\ KernelCenter(region) = <<region.center_x, region.center_y>>
              /\ KernelRadius(region.radius) = region.radius]_vars

C27_DispatchSamplesOwnFrame ==
  [][(KernelRuns /\ sensor_regions # <<>>) =>
       viewport_texture = MakeTexture(texture_arg.image)]_vars

LsmIds == {sensors[i].sensor_id : i \in 1..Len(sensors)}

\* C32: every id LightSensorManager::add_sensor returned and that was not
\* removed is registered in the BatchComputeManager, and the two
\* get_sensor_count() agree.
C32_SameSensorsInBothManagers ==
  lsm_is_initialized =>
    /\ LsmIds \subseteq RegisteredIds
    /\ Len(sensors) = get_sensor_count

\* C34: LightSensorManager::add_sensor returns -1 and registers nothing while
\* the manager is not initialised; otherwise it returns a positive id greater
\* than every id it returned before, whatever was removed or cleared since.
C34_FreshIds ==
  [][LSM_add_sensor =>
       IF ~lsm_is_initialized
       THEN /\ lsm_call'.ret = -1
            /\ UNCHANGED <<sensors, sensor_id_to_index, sensor_regions, sensor_results>>
       ELSE /\ lsm_call'.ret > 0
            /\ lsm_call'.ret > lsm_call.max_ret
            /\ lsm_call'.ret \in LsmIds']_vars

\* id 2 was handed out after id 1 had been removed or cleared
C34_Witness ==
  /\ lsm_call.op = "add_sensor" /\ lsm_call.ret = 2
  /\ LsmIds = {2}

\* C35: sensor_id_to_index maps the registered ids one to one onto the
\* positions of sensors: it has sensors.size() entries and
\* sensors[sensor_id_to_index[id]].sensor_id = id.
C35_IndexIsBijection ==
  /\ DOMAIN sensor_id_to_index = LsmIds
  /\ Cardinality(DOMAIN sensor_id_to_index) = Len(sensors)
  /\ \A id \in DOMAIN sensor_id_to_index :
       /\ sensor_id_to_index[id] \in 0..(Len(sensors) - 1)
       /\ sensors[sensor_id_to_index[id] + 1].sensor_id = id

\* the first of three sensors was removed and the two behind it moved up
C35_Witness ==
  /\ lsm_call.op = "remove_sensor"
  /\ Len(sensors) = 2
  /\ sensors[1].sensor_id = 2 /\ sensors[2].sensor_id = 3

\* the readback thread leaves the block under frame_mutex with a frame to average
TakesFrame ==
  \/ wpc = "after_wait" /\ wpc' = "write_first"
  \/ wpc = "lock" /\ wpc' = "submit"

HandlerCalls == {"none", "get_sensor_color", "add_sensor", "remove_sensor"}

\* std::lock_guard<std::mutex> lock(sensor_mutex) on the thread that already
\* owns the mutex: undefined for std::mutex; the thread blocks for ever or the
\* lock is taken over
RelockOutcomes == {"deadlock", "proceeds"}

\* what the steps of _emit_sensor_signals leave alone
sig_frame == <<thread_vars, lsm_is_initialized, batch_compute_manager, lsm_sample_radius,
               use_gpu_acceleration, interf, results_at_begin, latest, last_add, lc_vars,
               lds_vars, win_vars, seq_vars, tier_vars, res_vars>>

\* the body of the call the handler makes, once it owns sensor_mutex
HandlerBody(call) ==
  CASE call = "add_sensor" ->
         \E screen_pos \in Points :
           /\ next_sensor_id' = next_sensor_id + 1
           /\ sensors' = Append(sensors, SensorInfo(next_sensor_id, screen_pos))
           /\ sensor_id_to_index' = MapPut(sensor_id_to_index, next_sensor_id, Len(sensors))
           /\ BCM_add_sensor(next_sensor_id, screen_pos[1], screen_pos[2],
                             lsm_sample_radius)
           /\ lsm_call' = [lsm_call EXCEPT !.op = "add_sensor", !.ret = next_sensor_id,
                                           !.max_ret = Max(@, next_sensor_id)]
    [] call = "remove_sensor" ->
         /\ \E sensor_id \in SensorIds :
              IF sensor_id \notin DOMAIN sensor_id_to_index
              THEN UNCHANGED <<bcm_vars, sensors, sensor_id_to_index>>
              ELSE LET index == sensor_id_to_index[sensor_id] IN
                   /\ BCM_remove_sensor(sensor_id)
                   /\ sensors' = Erase(sensors, index)
                   /\ sensor_id_to_index' =
                        [k \in DOMAIN sensor_id_to_index \ {sensor_id} |->
                           IF sensor_id_to_index[k] > index
                           THEN sensor_id_to_index[k] - 1
                           ELSE sensor_id_to_index[k]]
         /\ lsm_call' = [lsm_call EXCEPT !.op = "remove_sensor"]
         /\ UNCHANGED next_sensor_id
    [] OTHER ->
         UNCHANGED <<bcm_vars, sensors, sensor_id_to_index, next_sensor_id, lsm_call>>

\* emit_signal with a connected handler: the handler makes its call, which
\* locks sensor_mutex first; after the handler emit_signal returns and the
\* emitting function goes on at position then
EmitSignal(then) ==
  \E call \in HandlerCalls :
    /\ call = "add_sensor" => next_sensor_id <= MaxId
    /\ IF call = "none"
       THEN /\ sig_pc' = then
            /\ UNCHANGED <<bcm_vars, sensors, sensor_id_to_index, next_sensor_id,
                           lsm_call, sensor_mutex>>
       ELSE IF sensor_mutex = "free"
       THEN /\ HandlerBody(call)
            /\ sig_pc' = then
            /\ UNCHANGED sensor_mutex
       ELSE \E outcome \in RelockOutcomes :
              IF outcome = "deadlock"
              THEN /\ sig_pc' = "deadlock"
                   /\ UNCHANGED <<bcm_vars, sensors, sensor_id_to_index, next_sensor_id,
                                  lsm_call, sensor_mutex>>
              ELSE /\ HandlerBody(call)
                   /\ sig_pc' = then
                   /\ sensor_mutex' = "free"

\* LightSensorManager::_process_sensors() after process_sensors returned:
\* nothing if it returned false; otherwise _emit_sensor_signals() copies
\* get_all_results() and locks sensor_mutex
Sig_lock ==
  /\ lsm_pc = "process_sensors"
  /\ pc = "idle"
  /\ sig_pc = "idle"
  /\ IF last_ret = "true"
     THEN /\ sig_results' = sensor_results
          /\ sensor_mutex' = "emit"
          /\ sig_i' = 0
          /\ sig_pc' = "loop"
          /\ lsm_pc' = "emit"
          /\ lsm_call' = [lsm_call EXCEPT !.stored = TRUE]
     ELSE /\ lsm_pc' = "idle"
          /\ UNCHANGED <<sig_vars, lsm_call>>
  /\ UNCHANGED <<bcm_vars, sensors, sensor_id_to_index, next_sensor_id, sig_frame>>

\* for (i = 0; i < sensors.size() && i < results.size(); ++i)
\*   if (sensors[i].last_color != results[i]) sensors[i].last_color = results[i];
Sig_loop ==
  /\ sig_pc = "loop"
  /\ IF sig_i < Len(sensors) /\ sig_i < Len(sig_results)
     THEN IF sensors[sig_i + 1].last_color # sig_results[sig_i + 1]
          THEN /\ sensors' = [sensors EXCEPT ![sig_i + 1].last_color =
                                                sig_results[sig_i + 1]]
               /\ sig_pc' = "sensor_updated"
               /\ UNCHANGED sig_i
          ELSE /\ sig_i' = sig_i + 1
               /\ UNCHANGED <<sensors, sig_pc>>
     ELSE /\ sig_pc' = "all_sensors_updated"
          /\ UNCHANGED <<sensors, sig_i>>
  /\ UNCHANGED <<bcm_vars, sensor_id_to_index, next_sensor_id, lsm_pc, lsm_call,
                 sensor_mutex, sig_results, sig_frame>>

\* _emit_sensor_updated_signal(sensors[i].sensor_id, results[i]); ++i
Sig_sensor_updated ==
  /\ sig_pc = "sensor_updated"
  /\ EmitSignal("loop")
  /\ sig_i' = sig_i + 1
  /\ UNCHANGED <<lsm_pc, sig_results, sig_frame>>

\* emit_signal("all_sensors_updated");
Sig_all_sensors_updated ==
  /\ sig_pc = "all_sensors_updated"
  /\ EmitSignal("return")
  /\ UNCHANGED <<lsm_pc, sig_i, sig_results, sig_frame>>

\* the end of _emit_sensor_signals: the lock_guard releases sensor_mutex
Sig_return ==
  /\ sig_pc = "return"
  /\ sig_pc' = "idle"
  /\ sensor_mutex' = "free"
  /\ lsm_pc' = "idle"
  /\ sig_i' = 0
  /\ sig_results' = <<>>
  /\ UNCHANGED <<bcm_vars, sensors, sensor_id_to_index, next_sensor_id, lsm_call,
                 sig_frame>>

NextSignals ==
  \/ LSM_initialize
  \/ LSM_add_sensor
  \/ LSM__process_sensors
  \/ _create_viewport_texture
  \/ _update_sensor_regions_buffer
  \/ _dispatch_compute_kernel
  \/ _read_results
  \/ Sig_lock
  \/ Sig_loop
  \/ Sig_sensor_updated
  \/ Sig_all_sensors_updated
  \/ Sig_return

SpecSignals == Init /\ [][NextSignals]_vars

\* C31: sensor_updated and all_sensors_updated are emitted without
\* sensor_mutex held, so a handler connected to either signal that calls
\* get_sensor_color, add_sensor or remove_sensor on the manager does not
\* deadlock
C31_SignalsOutsideLock ==
  /\ sig_pc \in {"sensor_updated", "all_sensors_updated"} => sensor_mutex = "free"
  /\ sig_pc # "deadlock"

\* C36: in the D3D12 readback loop every transition barrier names as
\* StateBefore the state its resource is in when the barrier executes, on
\* every iteration, the first one after a (re)allocation included
C36_BarriersNameActualState ==
  \A i \in DOMAIN barrier_log : barrier_log[i].barrier.StateBefore = barrier_log[i].met

====
